---- MODULE Spec2Model ----
(***************************************************************************)
(* DSUL daemon (dsul/daemon.py) and its IPC message layer (dsul/ipc.py).   *)
(*                                                                         *)
(* Python text that the code parses (event values, device frames) is a     *)
(* sequence of one-character strings; text the code only produces or       *)
(* compares (queued commands, response texts) is a TLA+ string.            *)
(***************************************************************************)
EXTENDS Integers, Sequences, FiniteSets, TLC

VARIABLES
    serial_active,          \* DsulDaemon.serial_active
    serial_verified,        \* DsulDaemon.serial_verified
    is_open,                \* DsulDaemon.ser.is_open
    serial_input_buffer,    \* DsulDaemon.serial_input_buffer (characters)
    send_commands,          \* DsulDaemon.send_commands
    current_mode,           \* DsulDaemon.current_mode (int)
    current_color,          \* DsulDaemon.current_color (Python value)
    current_brightness,     \* DsulDaemon.current_brightness (Python value)
    current_dim,            \* DsulDaemon.current_dim (int)
    settings,               \* brightness_min / brightness_max of DsulDaemon.settings
    device,                 \* DsulDaemon.device
    pc,                     \* position of the main thread
    retries,                \* local of __process_commands
    queue_count,            \* local of __process_commands
    command_item,           \* local of __process_commands
    input_data,             \* local of __get_serial_input (value read_serial returned)
    in_waiting,             \* bytes the serial port has received and not yet handed out
    wire,                   \* bytes the device has sent that have not yet arrived
    out_data,               \* commands the serial link has seen written, in write order
    next_seq,               \* enqueue ordinal of the next appended command
    pinger_pc,              \* position of the pinger thread
    objects,                \* batch of the last __process_server_request call
    response,               \* what that call returned (or the exception it raised)
    pre,                    \* daemon state at the start of the last step observed
    fails,                  \* failed write attempts on command_item so far
    dropped,                \* commands abandoned after failed writes
    frames,                 \* frames read_serial has returned to a direct caller
    sent,                   \* the frames the device has sent, in order
    msg,                    \* a constructed ipc.Message
    trips,                  \* how often msg went through serialize/deserialize
    server,                 \* ipc.Server: its run() and shutdown() threads, the listener
    conns,                  \* the IPC connections: client, handler thread, bytes in flight
    rx,                     \* one call of _read_objects: the socket's bytes and the call's position
    threads                 \* ipc_active, pinger_active, the stop events run() made, the IPC thread

vars == << serial_active, serial_verified, is_open, serial_input_buffer,
           send_commands, current_mode, current_color, current_brightness,
           current_dim, settings, device, pc, retries, queue_count,
           command_item, input_data, in_waiting, wire, out_data, next_seq,
           pinger_pc, objects, response, pre, fails, dropped, frames, sent,
           msg, trips, server, conns, rx, threads >>

-----------------------------------------------------------------------------
(* Python text helpers *)

Digits == << "0", "1", "2", "3", "4", "5", "6", "7", "8", "9" >>

IsDigit(c) == \E i \in 1..10 : Digits[i] = c

DigitVal(c) == (CHOOSE i \in 1..10 : Digits[i] = c) - 1

\* str.join of a character sequence into one string
RECURSIVE Join(_)
Join(s) == IF s = << >> THEN "" ELSE Head(s) \o Join(Tail(s))

\* the characters of str(n) for a natural number
RECURSIVE NatToChars(_)
NatToChars(n) == IF n < 10 THEN << Digits[n + 1] >>
                 ELSE Append(NatToChars(n \div 10), Digits[(n % 10) + 1])

\* the characters of str(n) for an int
IntToChars(n) == IF n < 0 THEN << "-" >> \o NatToChars(0 - n)
                 ELSE NatToChars(n)

NatToStr(n) == Join(NatToChars(n))

\* str(n) of an int
IntToStr(n) == Join(IntToChars(n))

\* "{:0Wd}".format(n): zero padding between the sign and the digits
RECURSIVE ZeroPad(_, _)
ZeroPad(s, w) == IF Len(s) >= w THEN s ELSE ZeroPad("0" \o s, w)

Format03d(n) == IF n < 0 THEN "-" \o ZeroPad(NatToStr(0 - n), 2)
                ELSE ZeroPad(NatToStr(n), 3)

Format01d(n) == IntToStr(n)

\* str.find of one character: 0-based index of its first occurrence, or -1
Find(s, c) == IF \E i \in 1..Len(s) : s[i] = c
              THEN (CHOOSE i \in 1..Len(s) :
                        s[i] = c /\ \A j \in 1..(i - 1) : s[j] # c) - 1
              ELSE -1

\* str.split(sep) for a one-character separator
RECURSIVE Split(_, _)
Split(s, sep) ==
    LET i == Find(s, sep)
    IN  IF i < 0 THEN << s >>
        ELSE << SubSeq(s, 1, i) >> \o Split(SubSeq(s, i + 2, Len(s)), sep)

IsSpace(c) == c \in {" ", "\t", "\n"}

RECURSIVE LStrip(_)
LStrip(s) == IF s # << >> /\ IsSpace(Head(s)) THEN LStrip(Tail(s)) ELSE s

RECURSIVE RStrip(_)
RStrip(s) == IF s # << >> /\ IsSpace(s[Len(s)])
             THEN RStrip(SubSeq(s, 1, Len(s) - 1)) ELSE s

\* the digits of an int literal body, "_" allowed singly between digits
IntBodyOk(b) ==
    /\ b # << >>
    /\ IsDigit(b[1]) /\ IsDigit(b[Len(b)])
    /\ \A i \in 1..Len(b) : IsDigit(b[i]) \/ b[i] = "_"
    /\ \A i \in 1..(Len(b) - 1) : ~(b[i] = "_" /\ b[i + 1] = "_")

RECURSIVE IntBodyVal(_, _)
IntBodyVal(b, acc) ==
    IF b = << >> THEN acc
    ELSE IF Head(b) = "_" THEN IntBodyVal(Tail(b), acc)
    ELSE IntBodyVal(Tail(b), 10 * acc + DigitVal(Head(b)))

\* int() of the unsigned literal b times sign: [ok |-> FALSE] stands for
\* ValueError
ParseBody(b, sign) ==
    IF IntBodyOk(b) THEN [ok |-> TRUE, n |-> sign * IntBodyVal(b, 0)]
    ELSE [ok |-> FALSE, n |-> 0]

\* int() of the stripped text t
ParseSigned(t) ==
    IF t # << >> /\ Head(t) = "-" THEN ParseBody(Tail(t), -1)
    ELSE IF t # << >> /\ Head(t) = "+" THEN ParseBody(Tail(t), 1)
    ELSE ParseBody(t, 1)

\* int(s) of a str
ParseInt(s) == ParseSigned(RStrip(LStrip(s)))

-----------------------------------------------------------------------------
(* Python values carried by an Event: a str or an int *)

PyStr(s) == [t |-> "str", s |-> s, n |-> 0]
PyNum(n) == [t |-> "int", s |-> << >>, n |-> n]

None == [t |-> "none", s |-> << >>, n |-> 0]

\* str(v), as an f-string renders it
Str(v) == CASE v.t = "str" -> Join(v.s)
            [] v.t = "int" -> IntToStr(v.n)
            [] OTHER       -> "None"

\* int(v) of a str or an int: [ok |-> FALSE] stands for ValueError
IntOf(v) == IF v.t = "int" THEN [ok |-> TRUE, n |-> v.n] ELSE ParseInt(v.s)

\* bool(v)
Truthy(v) == CASE v.t = "str" -> v.s # << >>
               [] v.t = "int" -> v.n # 0
               [] OTHER       -> FALSE

-----------------------------------------------------------------------------
(* Settings (dsul/settings.py) and the daemon's data *)

\* settings["modes"]
Modes == [solid |-> 1, blink |-> 2, flash |-> 3, pulse |-> 4]

\* str(settings["modes"])
ModesStr == "{'solid': 1, 'blink': 2, 'flash': 3, 'pulse': 4}"

\* dsul.VERSION when the distribution is not installed
VERSION == "0.0.0"

\* settings as get_settings("daemon") returns them
DefaultSettings == [brightness_min |-> 0, brightness_max |-> 150]

\* an entry of send_commands; seq is its enqueue ordinal (not in the code)
Item(command, want_reply, seq) ==
    [command |-> command, want_reply |-> want_reply, seq |-> seq]

\* what the code keeps in an entry of send_commands
Entry(item) == [command |-> item.command, want_reply |-> item.want_reply]

\* send_commands without the ordinals
RECURSIVE Entries(_)
Entries(q) == IF q = << >> THEN << >>
              ELSE << Entry(Head(q)) >> \o Entries(Tail(q))

\* the daemon's fields that the send actions, the decoder, init_serial and
\* the IPC handler read or write
Daemon == [serial_active      |-> serial_active,
           is_open            |-> is_open,
           send_commands      |-> send_commands,
           next_seq           |-> next_seq,
           current_mode       |-> current_mode,
           current_color      |-> current_color,
           current_brightness |-> current_brightness,
           current_dim        |-> current_dim,
           settings           |-> settings,
           device             |-> device,
           serial_verified    |-> serial_verified]

\* self.send_commands.append({"command": ..., "want_reply": ...})
Enqueue(d, command, want_reply) ==
    [d EXCEPT !.send_commands = Append(@, Item(command, want_reply, d.next_seq)),
              !.next_seq = @ + 1]

\* the outcome of a call: the daemon after it, the value returned, and the
\* exception that left it ("" for none)
Ret(d, ret, exc) == [d |-> d, ret |-> ret, exc |-> exc]

-----------------------------------------------------------------------------
(* SEND ACTIONS *)

\* the append of __send_color_command, once current_color is set: the
\* ValueError of a channel that is no int is caught, and False returned
SendColorChannels(d, red, green, blue) ==
    IF ~(red.ok /\ green.ok /\ blue.ok) THEN Ret(d, FALSE, "")
    ELSE Ret(Enqueue(d, "+l" \o Format03d(red.n) \o Format03d(green.n)
                            \o Format03d(blue.n) \o "#", TRUE), TRUE, "")

\* __send_color_command from "red, green, blue = ..." on: the ValueError
\* of a wrong number of parts is caught, and False returned
SendColorParts(d, value, parts) ==
    IF Len(parts) # 3 THEN Ret(d, FALSE, "")
    ELSE SendColorChannels([d EXCEPT !.current_color = value],
                           ParseInt(parts[1]), ParseInt(parts[2]),
                           ParseInt(parts[3]))

\* __send_color_command: an int has no split()
SendColorCommand(d, value) ==
    IF value.t # "str" THEN Ret(d, FALSE, "AttributeError")
    ELSE SendColorParts(d, value, Split(value.s, ":"))

\* as SendBrightnessValue, the upper bound excluded
SendBrightnessValueExclusive(d, value, v) ==
    IF ~v.ok THEN Ret(d, FALSE, "ValueError")
    ELSE IF v.n >= d.settings.brightness_min
            /\ v.n < d.settings.brightness_max
    THEN Ret(Enqueue([d EXCEPT !.current_brightness = value],
                     "+b" \o Format03d(v.n) \o "#", TRUE), TRUE, "")
    ELSE Ret(d, FALSE, "")

\* __send_brightness_command, v being int(value)
SendBrightnessValue(d, value, v) ==
    IF ~v.ok THEN Ret(d, FALSE, "ValueError")
    ELSE IF v.n >= d.settings.brightness_min
            /\ v.n <= d.settings.brightness_max
    THEN Ret(Enqueue([d EXCEPT !.current_brightness = value],
                     "+b" \o Format03d(v.n) \o "#", TRUE), TRUE, "")
    ELSE Ret(d, FALSE, "")

SendBrightnessCommand(d, value) == SendBrightnessValue(d, value, IntOf(value))

\* as SendModeNamed, current_mode left as it was
SendModeNamedStale(d, name) ==
    IF name \in DOMAIN Modes
    THEN Ret(Enqueue(d, "+m" \o Format03d(Modes[name]) \o "#", TRUE), TRUE, "")
    ELSE Ret(d, FALSE, "")

\* __send_mode_command, name being the text of value
SendModeNamed(d, name) ==
    IF name \in DOMAIN Modes
    THEN Ret(Enqueue([d EXCEPT !.current_mode = Modes[name]],
                     "+m" \o Format03d(Modes[name]) \o "#", TRUE), TRUE, "")
    ELSE Ret(d, FALSE, "")

SendModeCommand(d, value) ==
    IF value.t = "str" THEN SendModeNamed(d, Join(value.s))
    ELSE Ret(d, FALSE, "")

SendDimCommand(d, value) ==
    IF value >= 0 \/ value <= 1
    THEN Ret(Enqueue([d EXCEPT !.current_dim = value],
                     "+d" \o Format01d(value) \o "#", TRUE), TRUE, "")
    ELSE Ret(d, FALSE, "")

SendInformationRequest(d) == Enqueue(d, "-!#", TRUE)

SendPing(d) == Enqueue(d, "-?#", TRUE)

\* as SendOk, a reply being waited for
SendOkWantingReply(d) == Enqueue(d, "+!#", TRUE)

SendOk(d) == Enqueue(d, "+!#", FALSE)

-----------------------------------------------------------------------------
(* IPC messages as the daemon's handler sees them *)

\* ipc.Response(text)
Response(text) == [class |-> "Response", text |-> text]

\* an ipc.Event as Message.deserialize hands it to the handler: type is the
\* args list of the serialized object, properties hold key and value
Event(type, key, value) ==
    [class |-> "Event", type |-> type,
     properties |-> [key |-> key, value |-> value]]

\* self.device before any telemetry frame was decoded: {}
NoDevice == [present |-> FALSE, version |-> None, leds |-> None,
             brightness_min |-> None, brightness_max |-> None,
             current_color |-> None, current_brightness |-> None,
             current_mode |-> None, current_dim |-> None]

-----------------------------------------------------------------------------
(* GET ACTIONS *)

\* give_information: KeyError when self.device has no "version" key
GiveInformation(d) ==
    IF ~d.device.present THEN Ret(d, "", "KeyError")
    ELSE Ret(d, "daemon=" \o VERSION \o ";"
                \o "fw=" \o Str(d.device.version) \o ";"
                \o "modes=" \o ModesStr \o ";"
                \o "brightness_min=" \o IntToStr(d.settings.brightness_min) \o ";"
                \o "brightness_max=" \o IntToStr(d.settings.brightness_max) \o ";"
                \o "current_mode=" \o IntToStr(d.current_mode) \o ";"
                \o "current_brightness=" \o Str(d.current_brightness) \o ";"
                \o "current_color=" \o Str(d.current_color) \o ";"
                \o "current_dim=" \o IntToStr(d.current_dim) \o ";", "")

\* as StatusMessage, the mode answered whatever the field
StatusMessageOfMode(d, what) ==
    IF what \in {"color", "brightness", "mode", "dim"}
    THEN IntToStr(d.current_mode)
    ELSE "Invalid request/argument"

\* the message of a status request for the field what
StatusMessage(d, what) ==
    CASE what = "color"      -> Str(d.current_color)
      [] what = "brightness" -> Str(d.current_brightness)
      [] what = "mode"       -> IntToStr(d.current_mode)
      [] what = "dim"        -> IntToStr(d.current_dim)
      [] OTHER               -> "Invalid request/argument"

\* the result of an information request, info being give_information's
InformationResult(info) ==
    Ret(info.d, [action |-> "OK", message |-> info.ret], info.exc)

\* __get_request_results: ret is [action, message]
GetRequestResults(d, message_object) ==
    IF message_object.properties.key = "status"
    THEN Ret(d, [action  |-> "OK",
                 message |->
                    StatusMessage(d,
                        IF message_object.properties.value.t = "str"
                        THEN Join(message_object.properties.value.s)
                        ELSE "")], "")
    ELSE IF message_object.properties.key = "information"
    THEN InformationResult(GiveInformation(d))
    ELSE Ret(d, [action |-> "NOK",
                 message |-> "Invalid request/argument"], "")

-----
(* __process_server_request *)

\* a local variable that no statement has assigned yet
Unbound == "<unbound>"

\* the locals of the handler's loop, and the exception that ended it
Locals(d, action, message, valid, exc) ==
    [d |-> d, action |-> action, message |-> message, valid |-> valid,
     exc |-> exc]

\* valid after "valid = self.__send_..._command(...)"
Bound(r) == [r EXCEPT !.ret = IF @ THEN "True" ELSE "False"]

\* "valid = self.__send_dim_command(int(value))", v being int(value)
DispatchDim(st, v) ==
    IF v.ok THEN Bound(SendDimCommand(st.d, v.n))
    ELSE Ret(st.d, st.valid, "ValueError")

\* the validator a command key selects; an unknown key selects none and
\* leaves valid as it was
Dispatch(st, key, value) ==
    CASE key = "color"      -> Bound(SendColorCommand(st.d, value))
      [] key = "brightness" -> Bound(SendBrightnessCommand(st.d, value))
      [] key = "mode"       -> Bound(SendModeCommand(st.d, value))
      [] key = "dim"        -> DispatchDim(st, IntOf(value))
      [] OTHER              -> Ret(st.d, st.valid, "")

\* the rest of the command branch, r being the validator's outcome and
\* text the "<key>=<value>" message
CommandResult(st, r, text) ==
    IF r.exc # "" THEN Locals(r.d, "ACK", st.message, st.valid, r.exc)
    ELSE IF r.ret = Unbound
    THEN Locals(r.d, "ACK", text, Unbound, "UnboundLocalError")
    ELSE Locals(r.d, "ACK",
                IF r.ret = "True" THEN text ELSE "Invalid command/argument",
                r.ret, "")

\* the rest of the request branch, r being __get_request_results' outcome
RequestResult(st, r) ==
    IF r.exc # "" THEN [st EXCEPT !.exc = r.exc]
    ELSE Locals(r.d, r.ret.action, r.ret.message, st.valid, "")

\* one iteration of "for message_object in objects"
HandleEvent(st, message_object) ==
    IF st.exc # "" THEN st
    ELSE IF message_object.type = << >>
    THEN [st EXCEPT !.exc = "IndexError"]
    ELSE IF message_object.type[1] = "command"
    THEN CommandResult(st,
                       Dispatch(st, message_object.properties.key,
                                message_object.properties.value),
                       message_object.properties.key \o "="
                           \o Str(message_object.properties.value))
    ELSE IF message_object.type[1] = "request"
    THEN RequestResult(st, GetRequestResults(st.d, message_object))
    ELSE Locals(st.d, "ACK", "Unknown event type", st.valid, "")

RECURSIVE HandleEvents(_, _)
HandleEvents(st, objs) ==
    IF objs = << >> THEN st
    ELSE HandleEvents(HandleEvent(st, Head(objs)), Tail(objs))

\* "response = [ipc.Response(f"{action}, {message}")]", st being the locals
\* the loop left
Respond(st) ==
    IF st.exc # "" THEN Ret(st.d, << >>, st.exc)
    ELSE IF st.action = Unbound THEN Ret(st.d, << >>, "UnboundLocalError")
    ELSE Ret(st.d, << Response(st.action \o ", " \o st.message) >>, "")

\* as ProcessServerRequest, without the test of serial_verified
ProcessServerRequestUngated(d, objs) ==
    Respond(HandleEvents(Locals(d, Unbound, Unbound, Unbound, ""), objs))

\* __process_server_request(objects): ret is the list returned
ProcessServerRequest(d, objs) ==
    IF d.serial_verified
    THEN Respond(HandleEvents(Locals(d, Unbound, Unbound, Unbound, ""), objs))
    ELSE Ret(d, << Response("ACK, No serial connection") >>, "")

-----
(* Device protocol decoder *)

\* the patterns of __handle_serial_data: "\\d" is a digit, "ANY" is an
\* unescaped ".", anything else is the character itself
D3 == << "\\d", "\\d", "\\d" >>
D2 == << "\\d", "\\d" >>
PatV  == << "v" >> \o D3 \o << "." >> \o D3 \o << "ANY" >> \o D3
PatLL == << "l", "l" >> \o D3
PatLB == << "l", "b" >> \o D3 \o << ":" >> \o D3
PatCC == << "c", "c" >> \o D2 \o D2 \o D2
PatCB == << "c", "b" >> \o D3
PatCM == << "c", "m" >> \o D3
PatCD == << "c", "d", "\\d" >>

TokenMatches(tok, c) ==
    CASE tok = "\\d" -> IsDigit(c)
      [] tok = "ANY" -> c # "\n"
      [] OTHER       -> c = tok

MatchAt(s, i, pat) ==
    /\ i + Len(pat) - 1 <= Len(s)
    /\ \A k \in 1..Len(pat) : TokenMatches(pat[k], s[i + k - 1])

\* re.search: the index of the leftmost match, 0 for no match
Search(s, pat) ==
    IF \E i \in 1..Len(s) : MatchAt(s, i, pat)
    THEN CHOOSE i \in 1..Len(s) :
            MatchAt(s, i, pat) /\ \A j \in 1..(i - 1) : ~MatchAt(s, j, pat)
    ELSE 0

\* int(match[g]) for the group of len digits that starts off characters
\* into the match at i
Group(s, i, off, len) == IntBodyVal(SubSeq(s, i + off, i + off + len - 1), 0)

\* __update_settings
UpdateSettings(d) ==
    LET dev == d.device
        s1 == IF Truthy(dev.brightness_min)
              THEN [d.settings EXCEPT !.brightness_min = dev.brightness_min.n]
              ELSE d.settings
        s2 == IF Truthy(dev.brightness_max)
              THEN [s1 EXCEPT !.brightness_max = dev.brightness_max.n]
              ELSE s1
    IN  [d EXCEPT
           !.settings = s2,
           !.current_color = IF Truthy(dev.current_color)
                             THEN dev.current_color ELSE @,
           !.current_brightness = IF Truthy(dev.current_brightness)
                                  THEN dev.current_brightness ELSE @,
           !.current_mode = IF Truthy(dev.current_mode)
                            THEN dev.current_mode.n ELSE @,
           !.current_dim = IF Truthy(dev.current_dim)
                           THEN dev.current_dim.n ELSE @]

\* __handle_serial_data
HandleSerialData(d, data) ==
    LET v  == Search(data, PatV)
        ll == Search(data, PatLL)
        lb == Search(data, PatLB)
        cc == Search(data, PatCC)
        cb == Search(data, PatCB)
        cm == Search(data, PatCM)
        cd == Search(data, PatCD)
        dev == [present |-> TRUE,
                version |->
                    IF v # 0
                    THEN PyStr(IntToChars(Group(data, v, 1, 3)) \o << "." >>
                               \o IntToChars(Group(data, v, 5, 3)) \o << "." >>
                               \o IntToChars(Group(data, v, 9, 3)))
                    ELSE None,
                leds |-> IF ll # 0 THEN PyNum(Group(data, ll, 2, 3)) ELSE None,
                brightness_min |->
                    IF lb # 0 THEN PyNum(Group(data, lb, 2, 3)) ELSE None,
                brightness_max |->
                    IF lb # 0 THEN PyNum(Group(data, lb, 6, 3)) ELSE None,
                current_color |->
                    IF cc # 0
                    THEN PyStr(IntToChars(Group(data, cc, 2, 2)) \o << ":" >>
                               \o IntToChars(Group(data, cc, 4, 2)) \o << ":" >>
                               \o IntToChars(Group(data, cc, 6, 2)))
                    ELSE None,
                current_brightness |->
                    IF cb # 0 THEN PyNum(Group(data, cb, 2, 3)) ELSE None,
                current_mode |->
                    IF cm # 0 THEN PyNum(Group(data, cm, 2, 3)) ELSE None,
                current_dim |->
                    IF cd # 0 THEN PyNum(Group(data, cd, 2, 1)) ELSE None]
    IN  [UpdateSettings([d EXCEPT !.device = dev])
            EXCEPT !.serial_verified = TRUE]

\* __handle_serial_command
HandleSerialCommand(d, command) ==
    [(IF Join(command) = "-?#" THEN SendOk(d) ELSE d)
        EXCEPT !.serial_verified = TRUE]

\* __get_serial_input, once read_serial has returned input_data
GetSerialInput(d, data) ==
    IF Len(data) = 3 THEN HandleSerialCommand(d, data)
    ELSE HandleSerialData(d, data)

-----------------------------------------------------------------------------
(* SERIAL: init_serial *)

\* __set_current_states
CurrentStatesCall(d) ==
    IF d.current_mode # 0
    THEN SendModeCommand(d, PyStr(IntToChars(d.current_mode)))
    ELSE IF Truthy(d.current_color)
    THEN SendColorCommand(d, d.current_color)
    ELSE IF Truthy(d.current_brightness)
    THEN SendBrightnessCommand(d, d.current_brightness)
    ELSE IF d.current_dim # 0
    THEN SendDimCommand(d, d.current_dim)
    ELSE Ret(d, FALSE, "")

\* the daemon __set_current_states leaves
SetCurrentStates(d) == CurrentStatesCall(d).d

\* as InitSerial, serial_active left as it was when the port opens
InitSerialInactive(d, opens) ==
    IF d.is_open THEN d
    ELSE IF opens
    THEN SetCurrentStates([d EXCEPT !.is_open = TRUE,
                                    !.serial_verified = FALSE])
    ELSE [d EXCEPT !.serial_verified = FALSE, !.serial_active = FALSE]

\* init_serial; opens tells whether self.ser.open() succeeds
InitSerial(d, opens) ==
    IF d.is_open THEN d
    ELSE IF opens
    THEN SetCurrentStates([d EXCEPT !.is_open = TRUE,
                                    !.serial_active = TRUE,
                                    !.serial_verified = FALSE])
    ELSE [d EXCEPT !.serial_verified = FALSE, !.serial_active = FALSE]

\* as DeinitSerial, an open port left open
DeinitSerialSkipped(d) == d

\* deinit_serial: the port, if open, is closed
DeinitSerial(d) ==
    IF d.is_open THEN [d EXCEPT !.is_open = FALSE] ELSE d

\* the except clause of run(): serial_active is cleared and deinit_serial
\* called
Interrupted(d) == DeinitSerial([d EXCEPT !.serial_active = FALSE])

-----------------------------------------------------------------------------
(* The state machine *)

\* the daemon's fields become those of d
SetDaemon(d) ==
    /\ serial_active' = d.serial_active
    /\ is_open' = d.is_open
    /\ send_commands' = d.send_commands
    /\ next_seq' = d.next_seq
    /\ current_mode' = d.current_mode
    /\ current_color' = d.current_color
    /\ current_brightness' = d.current_brightness
    /\ current_dim' = d.current_dim
    /\ settings' = d.settings
    /\ device' = d.device
    /\ serial_verified' = d.serial_verified

daemonVars == << serial_active, is_open, send_commands, next_seq,
                 current_mode, current_color, current_brightness,
                 current_dim, settings, device, serial_verified >>

drainVars == << pc, retries, queue_count, command_item, input_data, fails,
               dropped >>

linkVars == << serial_input_buffer, in_waiting, wire, out_data, sent, frames >>

ipcVars == << objects, response >>

msgVars == << msg, trips >>

netVars == << server, conns, rx, threads >>

\* no step of interest has been observed
NoPre == [op |-> "", arg |-> << >>, d |-> << >>]

\* the daemon as it is before the step op(arg)
Pre(op, arg) == [op |-> op, arg |-> arg, d |-> Daemon]

NoItem == Item("", FALSE, 0)

\* class attributes of DsulDaemon, then __init__: init_serial with the
\* port opening or failing to open
Constructed(opens) ==
    InitSerial([serial_active      |-> FALSE,
                is_open            |-> FALSE,
                send_commands      |-> << >>,
                next_seq           |-> 0,
                current_mode       |-> 0,
                current_color      |-> PyStr(<< >>),
                current_brightness |-> PyStr(<< >>),
                current_dim        |-> 0,
                settings           |-> DefaultSettings,
                device             |-> NoDevice,
                serial_verified    |-> FALSE], opens)

\* the daemon's fields are those of d
DaemonIs(d) ==
    /\ serial_active = d.serial_active
    /\ is_open = d.is_open
    /\ send_commands = d.send_commands
    /\ next_seq = d.next_seq
    /\ current_mode = d.current_mode
    /\ current_color = d.current_color
    /\ current_brightness = d.current_brightness
    /\ current_dim = d.current_dim
    /\ settings = d.settings
    /\ device = d.device
    /\ serial_verified = d.serial_verified

\* the main thread has not entered run()
DrainAtRest ==
    /\ pc = "run"
    /\ retries = 0
    /\ queue_count = 0
    /\ command_item = NoItem
    /\ input_data = << >>
    /\ fails = 0
    /\ dropped = << >>

\* nothing has crossed the serial link
LinkAtRest ==
    /\ serial_input_buffer = << >>
    /\ in_waiting = << >>
    /\ wire = << >>
    /\ out_data = << >>
    /\ sent = << >>
    /\ frames = << >>

\* what a call of the handler left: the list returned, or the exception
Outcome(r) == [ret |-> r.ret, exc |-> r.exc]

\* no IPC request has been handled
IpcAtRest ==
    /\ objects = << >>
    /\ response = [ret |-> << >>, exc |-> ""]

MsgAtRest ==
    /\ msg = << >>
    /\ trips = 0

\* the connections the model follows
Conns == { 1, 2 }

\* Server.__init__: no server instance yet, neither thread started
ServerInit ==
    [run_pc |-> "start", shutdown_pc |-> "idle", instance |-> FALSE,
     listening |-> FALSE, shutdown_request |-> FALSE,
     is_shut_down |-> FALSE]

\* a connection nobody has opened: handler is the position of the server's
\* thread for it, response the handler's local, to_server / to_client the
\* frames written and not yet received, sends / calls / results what the
\* client wrote, what the callback was called with and what send returned
ConnInit ==
    [client |-> "new", connected |-> FALSE, handler |-> "none",
     sock_closed |-> FALSE, failed |-> FALSE, response |-> << >>,
     to_server |-> << >>, to_client |-> << >>, written |-> 0,
     sends |-> << >>, calls |-> << >>, results |-> << >>]

\* no _read_objects call is followed
NoRx == [pc |-> "off"]

\* the class attributes ipc_active and pinger_active; run() has made no
\* stop event and started no thread
ThreadsInit ==
    [ipc_active |-> FALSE, pinger_active |-> FALSE, ipc_stop |-> FALSE,
     pinger_stop |-> FALSE, ipc_pc |-> "off"]

\* run() has set ipc_active and pinger_active, made the two stop events and
\* started ipc_process
ThreadsStarted ==
    [ipc_active |-> TRUE, pinger_active |-> TRUE, ipc_stop |-> FALSE,
     pinger_stop |-> FALSE, ipc_pc |-> "start"]

\* the flags and events as run() has them where the main thread is
ThreadsAtRest ==
    threads = IF pc \in {"run", "test"} THEN ThreadsInit ELSE ThreadsStarted

NetAtRest ==
    /\ server = ServerInit
    /\ conns = [c \in Conns |-> ConnInit]
    /\ rx = NoRx
    /\ ThreadsAtRest

-----------------------------------------------------------------------------
(* The IPC handler, called once on a daemon the program can have reached *)

\* the longest batch a client sends
MaxBatch == 2

\* values of the events sent
ColorValues ==
    { << "2", "5", "5", ":", "0", ":", "0" >>,
      << "2", "5", "6", ":", "0", ":", "0" >>,
      << "0", ":", "0" >>,
      << "x", ":", "0", ":", "0" >> }

BrightnessValues ==
    { PyStr(<< "-", "1" >>), PyStr(<< "0" >>), PyStr(<< "9" >>),
      PyStr(<< "1", "0" >>), PyStr(<< "1", "0", "0" >>),
      PyStr(<< "1", "0", "1" >>), PyStr(<< "1", "5", "0" >>),
      PyStr(<< "1", "5", "1" >>), PyNum(150), PyNum(151),
      PyStr(<< "x" >>) }

ModeValues ==
    { << "s", "o", "l", "i", "d" >>, << "p", "u", "l", "s", "e" >>,
      << "b", "o", "g", "u", "s" >> }

DimValues == { PyNum(0), PyNum(1), PyNum(2), PyNum(-1), PyStr(<< "1" >>) }

StatusValues ==
    { << "c", "o", "l", "o", "r" >>,
      << "b", "r", "i", "g", "h", "t", "n", "e", "s", "s" >>,
      << "m", "o", "d", "e" >>, << "d", "i", "m" >>,
      << "b", "o", "g", "u", "s" >> }

\* the events a client sends
Events ==
    { Event(<< "command" >>, "color", PyStr(v)) : v \in ColorValues }
    \cup { Event(<< "command" >>, "brightness", v) : v \in BrightnessValues }
    \cup { Event(<< "command" >>, "mode", PyStr(v)) : v \in ModeValues }
    \cup { Event(<< "command" >>, "dim", v) : v \in DimValues }
    \cup { Event(<< "request" >>, "status", PyStr(v)) : v \in StatusValues }
    \cup { Event(<< "command" >>, "foo", PyStr(<< "1" >>)),
           Event(<< "request" >>, "information", PyStr(<< "a", "l", "l" >>)),
           Event(<< "request" >>, "foo", PyStr(<< "b", "a", "r" >>)),
           Event(<< "bogus" >>, "color", PyStr(<< "1" >>)) }

Batches == UNION { [1..n -> Events] : n \in 0..MaxBatch }

\* a telemetry frame reporting every field
FullTelemetry ==
    << "v", "0", "0", "1", ".", "0", "0", "2", ".", "0", "0", "3",
       "l", "l", "0", "0", "1",
       "l", "b", "0", "1", "0", ":", "1", "0", "0",
       "c", "c", "1", "0", "2", "0", "3", "0",
       "c", "b", "0", "5", "0",
       "c", "m", "0", "0", "0",
       "c", "d", "1", "#" >>

\* run() has queued its information request
Started(opens) == SendInformationRequest(Constructed(opens))

\* the drain has popped the information request and decoded the reply
Replied(frame) ==
    GetSerialInput([Started(TRUE) EXCEPT !.send_commands = << >>], frame)

\* daemons the handler is called on: port not opened, opened and no frame
\* yet, verified by a control frame, verified by a telemetry frame
HandlerDaemons ==
    { Started(FALSE), Started(TRUE), Replied(<< "+", "!", "#" >>),
      Replied(<< "-", "?", "#" >>), Replied(FullTelemetry) }

InitHandler ==
    /\ \E d \in HandlerDaemons : DaemonIs(d)
    /\ pc = "idle"
    /\ retries = 0 /\ queue_count = 0 /\ command_item = NoItem
    /\ input_data = << >> /\ fails = 0 /\ dropped = << >>
    /\ LinkAtRest /\ IpcAtRest /\ MsgAtRest /\ NetAtRest
    /\ pinger_pc = "off"
    /\ pre = NoPre

\* the handler, called on objs, ends with the outcome r
IpcReturn(objs, r) ==
    /\ SetDaemon(r.d)
    /\ objects' = objs
    /\ response' = Outcome(r)
    /\ pre' = Pre("request", objs)

\* a connection thread calls __process_server_request(objs)
IpcRequest(objs) == IpcReturn(objs, ProcessServerRequest(Daemon, objs))

HandleOnce ==
    /\ pre = NoPre
    /\ \E objs \in Batches : IpcRequest(objs)
    /\ UNCHANGED << drainVars, linkVars, msgVars, netVars, pinger_pc >>

NextHandler == HandleOnce

SpecHandler == InitHandler /\ [][NextHandler]_vars

-----------------------------------------------------------------------------
(* Properties of the IPC handler *)

\* the handler has just run on the batch in objects
Handled == pre.op = "request"

\* the handler returned exactly the one Response text
Returned(text) == response = [ret |-> << Response(text) >>, exc |-> ""]

\* the current_* values are what they were before the step
CurrentUnchanged ==
    /\ current_mode = pre.d.current_mode
    /\ current_color = pre.d.current_color
    /\ current_brightness = pre.d.current_brightness
    /\ current_dim = pre.d.current_dim

\* n in 0..999 as three digits
ThreeDigits(n) ==
    Digits[(n \div 100) + 1] \o Digits[((n \div 10) % 10) + 1]
        \o Digits[(n % 10) + 1]

\* C1: while serial_verified is false the handler returns, for any batch,
\* exactly the one Response "ACK, No serial connection" and leaves
\* send_commands and every current_* value unchanged.
C1_UnverifiedGate ==
    (Handled /\ ~pre.d.serial_verified) =>
        /\ Returned("ACK, No serial connection")
        /\ send_commands = pre.d.send_commands
        /\ CurrentUnchanged

\* an unverified daemon was sent a color command and a status request
C1_Witness ==
    /\ Handled /\ ~pre.d.serial_verified
    /\ Len(objects) = 2
    /\ objects[1].type[1] = "command" /\ objects[1].properties.key = "color"
    /\ objects[2].type[1] = "request"
    /\ Returned("ACK, No serial connection")

\* C5: a batch of n Events returns n Responses, Verified or not.
C5_OneResponsePerEvent ==
    Handled => (response.exc = "" /\ Len(response.ret) = Len(objects))

\* the handler ran, verified, on a batch of the one command Event key=...
Single(key) ==
    /\ Handled /\ pre.d.serial_verified
    /\ Len(objects) = 1
    /\ objects[1].type[1] = "command"
    /\ objects[1].properties.key = key

\* send_commands gained exactly the one entry {command, want_reply: True}
Gained(before, command) ==
    Entries(send_commands) =
        Append(Entries(before), [command |-> command, want_reply |-> TRUE])

\* s is a decimal integer in lo..hi
IsIntIn(s, lo, hi) == ParseInt(s).ok /\ ParseInt(s).n \in lo..hi

\* C8: in Verified a color command is accepted iff its value is "R:G:B"
\* with each channel an integer in 0..255; accepted, it appends the one
\* command "+lRRRGGGBBB#" and answers "ACK, color=<v>"; otherwise it answers
\* "ACK, Invalid command/argument".
C8_ColorValidation ==
    (Single("color") /\ objects[1].properties.value.t = "str") =>
        LET v     == objects[1].properties.value
            parts == Split(v.s, ":")
        IN  IF Len(parts) = 3 /\ \A i \in 1..3 : IsIntIn(parts[i], 0, 255)
            THEN /\ Returned("ACK, color=" \o Str(v))
                 /\ Gained(pre.d.send_commands,
                           "+l" \o ThreeDigits(ParseInt(parts[1]).n)
                                \o ThreeDigits(ParseInt(parts[2]).n)
                                \o ThreeDigits(ParseInt(parts[3]).n) \o "#")
            ELSE /\ Returned("ACK, Invalid command/argument")
                 /\ send_commands = pre.d.send_commands

\* the handler ran, verified, on a batch that ends in a command Event
\* key=..., and the Events before it raised nothing
Last(key) ==
    /\ Handled /\ pre.d.serial_verified
    /\ objects # << >>
    /\ objects[Len(objects)].type[1] = "command"
    /\ objects[Len(objects)].properties.key = key
    /\ HandleEvents(Locals(pre.d, Unbound, Unbound, Unbound, ""),
                    SubSeq(objects, 1, Len(objects) - 1)).exc = ""

\* the daemon as the Events before the last one left it
Mid == HandleEvents(Locals(pre.d, Unbound, Unbound, Unbound, ""),
                    SubSeq(objects, 1, Len(objects) - 1)).d

\* C9: in Verified a brightness command with integer value v is accepted
\* iff brightness_min <= v <= brightness_max, both bounds included;
\* accepted, it appends the one command "+bBBB#" and answers
\* "ACK, brightness=<v>"; rejected, it leaves send_commands and
\* current_brightness unchanged and answers "ACK, Invalid command/argument".
C9_BrightnessValidation ==
    (Last("brightness")
        /\ IntOf(objects[Len(objects)].properties.value).ok) =>
        LET value == objects[Len(objects)].properties.value
            v     == IntOf(value).n
        IN  IF pre.d.settings.brightness_min <= v
               /\ v <= pre.d.settings.brightness_max
            THEN /\ Returned("ACK, brightness=" \o Str(value))
                 /\ Gained(Mid.send_commands, "+b" \o ThreeDigits(v) \o "#")
                 /\ current_brightness = value
            ELSE /\ Returned("ACK, Invalid command/argument")
                 /\ send_commands = Mid.send_commands
                 /\ current_brightness = Mid.current_brightness

\* brightness_max itself was sent, after a status request, and accepted
C9_Witness ==
    /\ Last("brightness")
    /\ Len(objects) = 2
    /\ pre.d.settings.brightness_max = 100
    /\ IntOf(objects[2].properties.value) = [ok |-> TRUE, n |-> 100]
    /\ Returned("ACK, brightness=100")
    /\ Gained(pre.d.send_commands, "+b100#")

\* C10: in Verified a dim command is accepted iff its integer value is 0 or
\* 1; any other integer is rejected with "ACK, Invalid command/argument",
\* nothing is appended and current_dim is unchanged.
C10_DimValidation ==
    (Single("dim") /\ IntOf(objects[1].properties.value).ok) =>
        LET value == objects[1].properties.value
            v     == IntOf(value).n
        IN  IF v \in {0, 1}
            THEN /\ Returned("ACK, dim=" \o Str(value))
                 /\ Gained(pre.d.send_commands, "+d" \o Digits[v + 1] \o "#")
            ELSE /\ Returned("ACK, Invalid command/argument")
                 /\ send_commands = pre.d.send_commands
                 /\ current_dim = pre.d.current_dim

\* C11: in Verified a mode command with value v is accepted iff v is a
\* mode name of settings["modes"]; accepted, current_mode becomes the code
\* of v and the one command "+mMMM#" carrying the code is appended;
\* unknown, send_commands and current_mode are unchanged and the Response
\* is "ACK, Invalid command/argument".
C11_ModeValidation ==
    (Last("mode") /\ objects[Len(objects)].properties.value.t = "str") =>
        LET name == Join(objects[Len(objects)].properties.value.s)
        IN  IF name \in {"solid", "blink", "flash", "pulse"}
            THEN /\ Returned("ACK, mode=" \o name)
                 /\ current_mode = Modes[name]
                 /\ Gained(Mid.send_commands,
                           "+m" \o ThreeDigits(Modes[name]) \o "#")
            ELSE /\ Returned("ACK, Invalid command/argument")
                 /\ send_commands = Mid.send_commands
                 /\ current_mode = Mid.current_mode

\* the mode pulse was sent to a daemon in another mode, and accepted
C11_Witness ==
    /\ Last("mode")
    /\ Join(objects[Len(objects)].properties.value.s) = "pulse"
    /\ Mid.current_mode # 4
    /\ current_mode = 4
    /\ Gained(Mid.send_commands, "+m004#")

\* the handler ran, verified, on a batch that ends in a request Event
\* key=..., and the Events before it raised nothing
LastRequest(key) ==
    /\ Handled /\ pre.d.serial_verified
    /\ objects # << >>
    /\ objects[Len(objects)].type[1] = "request"
    /\ objects[Len(objects)].properties.key = key
    /\ HandleEvents(Locals(pre.d, Unbound, Unbound, Unbound, ""),
                    SubSeq(objects, 1, Len(objects) - 1)).exc = ""

\* the value of the last Event is the text of a field a status request names
StatusField ==
    /\ objects[Len(objects)].properties.value.t = "str"
    /\ Join(objects[Len(objects)].properties.value.s)
           \in {"color", "brightness", "mode", "dim"}

\* C12: in Verified a request Event with key=status and value f in {color,
\* brightness, mode, dim} returns exactly "OK, " followed by the daemon's
\* current value of f, and changes neither send_commands nor any other
\* state of the daemon.
C12_StatusRequest ==
    (LastRequest("status") /\ StatusField) =>
        LET f == Join(objects[Len(objects)].properties.value.s)
        IN  /\ Returned("OK, " \o
                    (CASE f = "color"      -> Str(Mid.current_color)
                       [] f = "brightness" -> Str(Mid.current_brightness)
                       [] f = "mode"       -> IntToStr(Mid.current_mode)
                       [] f = "dim"        -> IntToStr(Mid.current_dim)))
            /\ Daemon = Mid

\* the brightness was asked for after a brightness command had set it
C12_Witness ==
    /\ LastRequest("status")
    /\ Len(objects) = 2
    /\ objects[1].properties.key = "brightness"
    /\ Join(objects[2].properties.value.s) = "brightness"
    /\ Mid.current_brightness # pre.d.current_brightness
    /\ Returned("OK, 100")

\* C13: in Verified a request Event that is neither a status request for
\* color, brightness, mode or dim nor an information request returns
\* exactly "NOK, Invalid request/argument"; a status request for another
\* value is among them.
C13_InvalidRequest ==
    (Handled /\ pre.d.serial_verified /\ objects # << >>
        /\ objects[Len(objects)].type[1] = "request"
        /\ objects[Len(objects)].properties.key # "information"
        /\ ~(objects[Len(objects)].properties.key = "status" /\ StatusField)
        /\ HandleEvents(Locals(pre.d, Unbound, Unbound, Unbound, ""),
                        SubSeq(objects, 1, Len(objects) - 1)).exc = "") =>
        Returned("NOK, Invalid request/argument")

\* C14: in every Verified state, made so by a control frame or by a
\* telemetry frame, an information request returns the one Response "OK, "
\* followed by the semicolon-joined list of the daemon's values, and raises
\* nothing.
C14_InformationRequest ==
    LastRequest("information") =>
        Returned("OK, " \o
                 GiveInformation([Mid EXCEPT !.device.present = TRUE]).ret)

\* C15: in Verified a command Event with key color, brightness, mode or dim
\* and any value string is answered by a Response "ACK, <key>=<value>" or
\* "ACK, Invalid command/argument"; no exception leaves the handler.
C15_ValidationAsText ==
    (Handled /\ pre.d.serial_verified /\ Len(objects) = 1
        /\ objects[1].type[1] = "command"
        /\ objects[1].properties.key \in {"color", "brightness", "mode", "dim"}
        /\ objects[1].properties.value.t = "str") =>
        \/ Returned("ACK, Invalid command/argument")
        \/ Returned("ACK, " \o objects[1].properties.key \o "="
                        \o Str(objects[1].properties.value))

\* C16: in Verified a command Event whose key is not color, brightness,
\* mode or dim appends nothing, changes no current_* value and is answered
\* "ACK, Invalid command/argument", whatever the Events before it in the
\* batch did.
C16_UnknownKey ==
    Last("foo") =>
        /\ Returned("ACK, Invalid command/argument")
        /\ send_commands = Mid.send_commands
        /\ current_mode = Mid.current_mode
        /\ current_color = Mid.current_color
        /\ current_brightness = Mid.current_brightness
        /\ current_dim = Mid.current_dim

-----------------------------------------------------------------------------
(* SERIAL: read_serial and the serial port *)

\* the most bytes one self.ser.read() asks for
ReadMax == 2048

\* the concatenation of a sequence of frames
RECURSIVE Flatten(_)
Flatten(fs) == IF fs = << >> THEN << >> ELSE Head(fs) \o Flatten(Tail(fs))

Min(a, b) == IF a < b THEN a ELSE b

\* the device sends frame
DeviceSend(frame) ==
    /\ wire' = wire \o frame
    /\ sent' = Append(sent, frame)
    /\ UNCHANGED << serial_input_buffer, in_waiting, out_data, frames >>

\* the next k bytes in transit reach the port's input buffer
Arrive(k) ==
    /\ k \in 1..Len(wire)
    /\ in_waiting' = in_waiting \o SubSeq(wire, 1, k)
    /\ wire' = SubSeq(wire, k + 1, Len(wire))
    /\ UNCHANGED << serial_input_buffer, out_data, sent, frames >>

\* read_serial is called at position at: a frame left in the buffer is
\* returned at once, else the read loop is entered
ReadSerialEnter(at) ==
    /\ pc = at
    /\ LET i == Find(serial_input_buffer, "#")
       IN  IF i >= 0
           THEN /\ input_data' = SubSeq(serial_input_buffer, 1, i + 1)
                /\ serial_input_buffer' =
                       SubSeq(serial_input_buffer, i + 2,
                              Len(serial_input_buffer))
                /\ pc' = "input"
           ELSE /\ pc' = "read"
                /\ UNCHANGED << input_data, serial_input_buffer >>
    /\ UNCHANGED << in_waiting, wire, out_data, sent, frames >>

\* what one turn of the read loop does with the bytes data it has read:
\* the frame to return (none when data holds no "#") and the new buffer
ReadTurn(buffer, data) ==
    LET i == Find(data, "#")
    IN  IF i >= 0
        THEN [found  |-> TRUE,
              read   |-> buffer \o SubSeq(data, 1, i + 1),
              buffer |-> << >>]
        ELSE [found  |-> FALSE,
              read   |-> << >>,
              buffer |-> buffer \o data]

\* one turn of the read loop: self.ser.read(i) hands out i bytes, where
\* i = max(1, min(2048, in_waiting)) was computed when in_waiting was at
\* most what it is by the time the read returns
ReadChunk(i) ==
    /\ pc = "read"
    /\ i \in 1..Min(ReadMax, Len(in_waiting))
    /\ LET t == ReadTurn(serial_input_buffer, SubSeq(in_waiting, 1, i))
       IN  /\ serial_input_buffer' = t.buffer
           /\ input_data' = IF t.found THEN t.read ELSE input_data
           /\ pc' = IF t.found THEN "input" ELSE "read"
    /\ in_waiting' = SubSeq(in_waiting, i + 1, Len(in_waiting))
    /\ UNCHANGED << wire, out_data, sent, frames >>

\* one turn of the read loop in which self.ser.read(1) times out: it hands
\* out no byte, nothing is found or kept, and the loop turns again
ReadNothing ==
    /\ pc = "read"
    /\ in_waiting = << >>
    /\ LET t == ReadTurn(serial_input_buffer, << >>)
       IN  /\ serial_input_buffer' = t.buffer
           /\ input_data' = IF t.found THEN t.read ELSE input_data
           /\ pc' = IF t.found THEN "input" ELSE "read"
    /\ UNCHANGED << in_waiting, wire, out_data, sent, frames >>

\* self.ser.read() raises SerialException: read_serial returns ""
ReadFail ==
    /\ pc = "read"
    /\ input_data' = << >>
    /\ pc' = "input"
    /\ UNCHANGED linkVars

\* a direct caller of read_serial (the daemon's test) has its result
TakeFrame ==
    /\ pc = "input"
    /\ frames' = Append(frames, input_data)
    /\ pc' = "test"
    /\ UNCHANGED << serial_input_buffer, in_waiting, wire, out_data, sent,
                    input_data >>

\* the most frames the device sends
MaxFrames == 2

Ping  == << "-", "?", "#" >>
Ok    == << "+", "!", "#" >>
Again == << "-", "!", "#" >>
Error == << "+", "?", "#" >>

\* a telemetry frame reporting the dim state only
DimOn == << "c", "d", "1", "#" >>

\* a telemetry frame reporting the brightness bounds and the mode
BoundsAndMode ==
    << "l", "b", "0", "1", "0", ":", "1", "0", "0", "c", "m", "0", "0", "2",
       "#" >>

ReadFrames == { Ping, Ok, DimOn }

InitRead ==
    /\ DaemonIs(Constructed(TRUE))
    /\ pc = "test"
    /\ retries = 0 /\ queue_count = 0 /\ command_item = NoItem
    /\ input_data = << >> /\ fails = 0 /\ dropped = << >>
    /\ \E n \in 1..MaxFrames : \E fs \in [1..n -> ReadFrames] :
            sent = fs /\ wire = Flatten(fs)
    /\ serial_input_buffer = << >>
    /\ in_waiting = << >>
    /\ out_data = << >>
    /\ frames = << >>
    /\ IpcAtRest /\ MsgAtRest /\ NetAtRest
    /\ pinger_pc = "off"
    /\ pre = NoPre

readOnly == << daemonVars, retries, queue_count, command_item, fails,
               dropped, ipcVars, msgVars, netVars, pinger_pc, pre >>

NextRead ==
    \/ (\E k \in 1..Len(wire) : Arrive(k))
            /\ UNCHANGED << readOnly, pc, input_data >>
    \/ ReadSerialEnter("test") /\ UNCHANGED readOnly
    \/ (\E i \in 1..Len(in_waiting) : ReadChunk(i)) /\ UNCHANGED readOnly
    \/ ReadNothing /\ UNCHANGED readOnly
    \/ TakeFrame /\ UNCHANGED readOnly

SpecRead == InitRead /\ [][NextRead]_vars

\* C3: however the device's stream of '#'-terminated frames is cut into
\* read chunks, read_serial returns the frames of the stream in order, each
\* ending in '#', no byte lost or duplicated; bytes read past a terminator
\* wait in serial_input_buffer for the next call.
C3_Framing ==
    /\ \A i \in 1..Len(frames) : frames[i] = sent[i]
    /\ Flatten(frames) \o (IF pc = "input" THEN input_data ELSE << >>)
           \o serial_input_buffer \o in_waiting \o wire
       = Flatten(sent)

-----------------------------------------------------------------------------
(* run(), the command-processing loop, the pinger and the IPC threads *)

\* as MaxRetries, one more attempt allowed
MaxRetriesRaised == 5 + 1

\* the write attempts that fail before a command is abandoned
MaxRetries == 5

\* the most commands the pinger and the IPC threads enqueue
MaxEnqueued == 2

\* the most frames the device sends while the loop runs
MaxSent == 1

\* as Pop, the head left in the queue
PopKept(q) == [item |-> Head(q), rest |-> q]

\* as Pop, from the wrong end
PopLast(q) == [item |-> q[Len(q)], rest |-> SubSeq(q, 1, Len(q) - 1)]

\* self.send_commands.pop(0)
Pop(q) == [item |-> Head(q), rest |-> Tail(q)]

\* run() starts the IPC thread and the pinger thread
RunThreads ==
    /\ pc = "run"
    /\ pc' = "info"
    /\ threads' = ThreadsStarted
    /\ pinger_pc' = "start"
    /\ pre' = NoPre
    /\ UNCHANGED << daemonVars, retries, queue_count, command_item,
                    input_data, fails, dropped, linkVars, ipcVars, msgVars,
                    server, conns, rx >>

\* run() calls __send_information_request
RunInformationRequest ==
    /\ pc = "info"
    /\ SetDaemon(SendInformationRequest(Daemon))
    /\ pc' = "idle"
    /\ pre' = NoPre
    /\ UNCHANGED << retries, queue_count, command_item, input_data, fails,
                    dropped, linkVars, ipcVars, msgVars, netVars, pinger_pc >>

\* as PingerStart, the inner loop entered whatever the flags are
PingerStartUntested ==
    /\ pinger_pc = "start"
    /\ pinger_pc' = "ping"
    /\ pre' = NoPre
    /\ UNCHANGED << daemonVars, drainVars, linkVars, ipcVars, msgVars, netVars >>

\* pinger_process tests pinger_active and serial_active: the inner loop is
\* entered, or pinger_process returns
PingerStart ==
    /\ pinger_pc = "start"
    /\ pinger_pc' = IF threads.pinger_active /\ serial_active
                     THEN "ping" ELSE "done"
    /\ pre' = NoPre
    /\ UNCHANGED << daemonVars, drainVars, linkVars, ipcVars, msgVars, netVars >>

\* as PingerPing, the pinger writing its ping to the port itself
PingerPingWrites ==
    /\ pinger_pc = "ping"
    /\ next_seq < MaxEnqueued
    /\ out_data' = Append(out_data, Item("-?#", TRUE, next_seq))
    /\ next_seq' = next_seq + 1
    /\ pre' = NoPre
    /\ UNCHANGED << serial_active, is_open, send_commands, current_mode,
                    current_color, current_brightness, current_dim, settings,
                    device, serial_verified, drainVars, serial_input_buffer,
                    in_waiting, wire, sent, frames, ipcVars, msgVars, netVars,
                    pinger_pc >>

\* the pinger's inner loop, its stop event not set, calls __send_ping, then
\* waits out its period
PingerPing ==
    /\ pinger_pc = "ping"
    /\ ~threads.pinger_stop
    /\ next_seq < MaxEnqueued
    /\ SetDaemon(SendPing(Daemon))
    /\ pre' = NoPre
    /\ UNCHANGED << drainVars, linkVars, ipcVars, msgVars, netVars, pinger_pc >>

\* a connection thread of the IPC server handles a batch
IpcServe(objs) ==
    /\ pc # "run"
    /\ next_seq < MaxEnqueued
    /\ IpcRequest(objs)
    /\ UNCHANGED << drainVars, linkVars, msgVars, netVars, pinger_pc >>

\* __process_commands is entered
ProcessCommandsEnter ==
    /\ pc = "idle"
    /\ retries' = 0
    /\ queue_count' = Len(send_commands)
    /\ pc' = "loop"
    /\ pre' = NoPre
    /\ UNCHANGED << daemonVars, command_item, input_data, fails, dropped,
                    linkVars, ipcVars, msgVars, netVars, pinger_pc >>

\* queue_count is 0: __process_commands returns, run() sleeps
ProcessCommandsReturn ==
    /\ pc = "loop"
    /\ queue_count = 0
    /\ pc' = "idle"
    /\ pre' = NoPre
    /\ UNCHANGED << daemonVars, retries, queue_count, command_item,
                    input_data, fails, dropped, linkVars, ipcVars, msgVars, netVars,
                    pinger_pc >>

\* the loop goes on with the daemon d that init_serial left: to the write
\* if the link is active, else to the next command
DrainOn(d) ==
    /\ SetDaemon(d)
    /\ pc' = IF d.serial_active THEN "write" ELSE "loop"

\* the head of the queue is popped and init_serial is called
DrainPop ==
    /\ pc = "loop"
    /\ queue_count > 0
    /\ command_item' = Pop(send_commands).item
    /\ \E opens \in BOOLEAN :
          DrainOn(InitSerial([Daemon EXCEPT
                                 !.send_commands = Pop(send_commands).rest],
                             opens))
    /\ queue_count' = queue_count - 1
    /\ fails' = 0
    /\ pre' = Pre("pop", << >>)
    /\ UNCHANGED << retries, input_data, dropped, linkVars, ipcVars,
                    msgVars, netVars, pinger_pc >>

\* as WriteOk, a reply read following whatever want_reply says
WriteOkThenRead ==
    /\ pc = "write"
    /\ out_data' = Append(out_data, command_item)
    /\ pc' = "reply"
    /\ pre' = NoPre
    /\ UNCHANGED << daemonVars, retries, queue_count, command_item,
                    input_data, fails, dropped, serial_input_buffer,
                    in_waiting, wire, sent, frames, ipcVars, msgVars, netVars,
                    pinger_pc >>

\* write_serial returns True
WriteOk ==
    /\ pc = "write"
    /\ out_data' = Append(out_data, command_item)
    /\ pc' = IF command_item.want_reply THEN "reply" ELSE "loop"
    /\ pre' = NoPre
    /\ UNCHANGED << daemonVars, retries, queue_count, command_item,
                    input_data, fails, dropped, serial_input_buffer,
                    in_waiting, wire, sent, frames, ipcVars, msgVars, netVars,
                    pinger_pc >>

\* write_serial returns False: another try after a second, or the
\* exception that abandons the command
WriteFail ==
    /\ pc = "write"
    /\ fails' = fails + 1
    /\ IF retries + 1 >= MaxRetries
       THEN /\ retries' = 0
            /\ dropped' = Append(dropped, command_item)
            /\ pc' = "loop"
       ELSE /\ retries' = retries + 1
            /\ pc' = "write"
            /\ UNCHANGED dropped
    /\ pre' = NoPre
    /\ UNCHANGED << daemonVars, queue_count, command_item, input_data,
                    linkVars, ipcVars, msgVars, netVars, pinger_pc >>

\* __get_serial_input decodes what read_serial returned
DecodeInput ==
    /\ pc = "input"
    /\ SetDaemon(GetSerialInput(Daemon, input_data))
    /\ pc' = "loop"
    /\ pre' = Pre("decode", input_data)
    /\ UNCHANGED << retries, queue_count, command_item, input_data, fails,
                    dropped, linkVars, ipcVars, msgVars, netVars, pinger_pc >>

\* the frames the device sends the daemon
DeviceFrames == { Ping, Ok, Again, Error }

\* the batches the clients send while the loop runs
DrainBatches ==
    { << Event(<< "command" >>, "color",
               PyStr(<< "2", "5", "5", ":", "0", ":", "0" >>)) >> }

InitDrain ==
    /\ \E opens \in BOOLEAN : DaemonIs(Constructed(opens))
    /\ DrainAtRest /\ LinkAtRest /\ IpcAtRest /\ MsgAtRest /\ NetAtRest
    /\ pinger_pc = "off"
    /\ pre = NoPre

\* a step of the serial port or of read_serial, seen from the other threads
Link(A) ==
    /\ A
    /\ pre' = NoPre
    /\ UNCHANGED << daemonVars, retries, queue_count, command_item, fails,
                    dropped, ipcVars, msgVars, netVars, pinger_pc >>

NextDrain ==
    \/ RunThreads
    \/ RunInformationRequest
    \/ PingerStart
    \/ PingerPing
    \/ \E objs \in DrainBatches : IpcServe(objs)
    \/ ProcessCommandsEnter
    \/ ProcessCommandsReturn
    \/ DrainPop
    \/ WriteOk
    \/ WriteFail
    \/ Link(ReadSerialEnter("reply"))
    \/ Link(\E i \in 1..Len(in_waiting) : ReadChunk(i))
    \/ Link(ReadNothing)
    \/ Link(ReadFail)
    \/ DecodeInput
    \/ Link(\E frame \in DeviceFrames :
                Len(sent) < MaxSent /\ DeviceSend(frame)
                    /\ UNCHANGED << pc, input_data >>)
    \/ Link(Arrive(Len(wire)) /\ UNCHANGED << pc, input_data >>)

SpecDrain == InitDrain /\ [][NextDrain]_vars

\* a step of the thread of run(): the command-processing loop, its writes
\* and its reads of what the port holds
DrainThread ==
    \/ RunThreads
    \/ RunInformationRequest
    \/ ProcessCommandsEnter
    \/ ProcessCommandsReturn
    \/ DrainPop
    \/ WriteOk
    \/ WriteFail
    \/ Link(ReadSerialEnter("reply"))
    \/ Link(\E i \in 1..Len(in_waiting) : ReadChunk(i))
    \/ Link(ReadNothing)
    \/ DecodeInput

\* the bytes the device has sent reach the port
Arrival == Link(Arrive(Len(wire)) /\ UNCHANGED << pc, input_data >>)

\* the thread of run() is scheduled and bytes in transit arrive; what the
\* device sends, and whether the port raises, is up to the device and the
\* port
SpecDrainLive ==
    InitDrain /\ [][NextDrain]_vars
        /\ WF_vars(DrainThread) /\ WF_vars(Arrival)

-----------------------------------------------------------------------------
(* Properties of the drain loop *)

\* the ordinals of the items of q
Ordinals(q) == { q[i].seq : i \in 1..Len(q) }

\* C2: whatever the interleaving of the producers with the drain loop, the
\* commands written to the serial link are written in the order they were
\* appended to send_commands: of two written commands, the one appended
\* first is written first.
C2_FifoOrder ==
    \A i, j \in 1..Len(out_data) :
        i < j => out_data[i].seq < out_data[j].seq

\* the startup request and the decoder's ack were written, and a command
\* appended between the two was abandoned
C2_Witness ==
    /\ \E i, j \in 1..Len(out_data) :
          /\ i < j
          /\ out_data[i].command = "-!#"
          /\ out_data[j].command = "+!#"
          /\ \E k \in 1..Len(dropped) :
                /\ out_data[i].seq < dropped[k].seq
                /\ dropped[k].seq < out_data[j].seq

\* no command abandoned was written or is back in send_commands, and no
\* command has a sixth consecutive failed attempt
Abandoned ==
    /\ Ordinals(dropped) \cap (Ordinals(out_data) \cup Ordinals(send_commands))
           = {}
    /\ fails <= 5
    /\ pc \in {"run", "info", "idle", "loop", "write", "reply", "read",
               "input"}

\* the fifth consecutive failed attempt abandons the command and goes back
\* to the loop; the loop's next step pops the head of the queue
AbandonStep ==
    /\ (fails = 4 /\ fails' = 5) =>
          /\ pc' = "loop"
          /\ dropped' = Append(dropped, command_item)
          /\ UNCHANGED << send_commands, out_data >>
    /\ (fails = 5 /\ pc = "loop" /\ queue_count > 0
            /\ queue_count' # queue_count) =>
          /\ command_item' = Head(send_commands)
          /\ queue_count' = queue_count - 1
          /\ pc' \in {"write", "loop"}
    /\ (fails = 5 /\ pc = "loop" /\ queue_count = 0 /\ pc' # pc) =>
          pc' = "idle"

\* C4: a command whose write fails on 5 consecutive attempts is dropped,
\* neither written nor appended again; the same drain goes on with the next
\* queued command, and __process_commands returns without raising.
C4_WriteFailureDrop == []Abandoned /\ [][AbandonStep]_vars

\* a command was abandoned after 5 failed attempts and the drain has the
\* next one to pop
C4_Witness ==
    /\ fails = 5
    /\ pc = "loop"
    /\ queue_count > 0
    /\ dropped # << >>
    /\ dropped[Len(dropped)] = command_item

\* C7: decoding the frame "-?#" appends exactly the command "+!#" with
\* want_reply false to send_commands and sets serial_verified; decoding
\* "-!#", "+!#" or "+?#" appends nothing and sets serial_verified.
C7_DevicePing ==
    pre.op = "decode" =>
        /\ Join(pre.arg) = "-?#" =>
              /\ serial_verified
              /\ Len(send_commands) = Len(pre.d.send_commands) + 1
              /\ SubSeq(send_commands, 1, Len(pre.d.send_commands))
                     = pre.d.send_commands
              /\ Entry(send_commands[Len(send_commands)])
                     = [command |-> "+!#", want_reply |-> FALSE]
        /\ Join(pre.arg) \in {"-!#", "+!#", "+?#"} =>
              /\ serial_verified
              /\ send_commands = pre.d.send_commands

\* the ping of the device was decoded on a link not verified before
C7_Witness ==
    /\ pre.op = "decode"
    /\ Join(pre.arg) = "-?#"
    /\ ~pre.d.serial_verified
    /\ serial_verified

\* the daemon right after the pop of the step observed, before init_serial
Popped == [pre.d EXCEPT !.send_commands = Tail(@)]

\* C26: every popped command has its own budget of 5 write attempts: it is
\* dropped only after 5 failed attempts of that same command, whatever
\* attempts an earlier command of the same drain has spent.
C26_RetryBudget ==
    [][dropped' # dropped => fails' = 5]_vars

\* C27: if the serial link is not active, and cannot be opened, when a
\* command of a drain cycle is due, no command is removed from
\* send_commands.
C27_InactiveSkipsDrain ==
    (pre.op = "pop" /\ ~serial_active) =>
        send_commands = pre.d.send_commands

\* __process_commands returns in this step, the link active, and
\* send_commands holds nothing but what the drain itself appended: the
\* pinger and the IPC threads, which append no "+!#", appended nothing
\* after the drain began
ReturnsAlone ==
    /\ pc = "loop" /\ pc' = "idle"
    /\ serial_active
    /\ \A i \in 1..Len(send_commands) : send_commands[i].command = "+!#"

\* C28: when a call of __process_commands returns with the link active
\* and nothing else appending concurrently, send_commands is empty, the
\* "+!#" queued when a reply read returned "-?#" included.
C28_DrainToCompletion ==
    [][ReturnsAlone => send_commands = << >>]_vars

\* while the reply of a command is read and decoded, the command is the
\* one written last and it wants a reply
Replying ==
    pc \in {"reply", "read", "input"} =>
        /\ command_item.want_reply
        /\ out_data # << >>
        /\ out_data[Len(out_data)] = command_item

\* a write is followed by the reply read exactly when the command wants a
\* reply; the read is entered only by such a write, runs once, hands its
\* result to the decoder and only then lets the loop go on; a dropped
\* command has no read
ReplyStep ==
    /\ out_data' # out_data =>
          /\ pc = "write"
          /\ out_data' = Append(out_data, command_item)
          /\ pc' = IF command_item.want_reply THEN "reply" ELSE "loop"
    /\ (pc # "reply" /\ pc' = "reply") => out_data' # out_data
    /\ pc = "reply" => pc' \in {"reply", "read", "input"}
    /\ pc = "read" => pc' \in {"read", "input"}
    /\ (pc = "input" /\ pc' # "input") =>
          /\ pc' = "loop"
          /\ Daemon' = GetSerialInput(Daemon, input_data)
    /\ pc \in {"reply", "read", "input"} =>
          /\ out_data' = out_data
          /\ command_item' = command_item
    /\ dropped' # dropped => pc' = "loop"

\* C29: for each popped command, if want_reply is true and its write
\* succeeded, exactly one read_serial is performed and its result handed to
\* the decoder before the next command is written; if want_reply is false,
\* or the command was dropped after failed writes, no read is performed.
C29_ReplyReadOrdering == []Replying /\ [][ReplyStep]_vars

\* the reply of the startup request was read and decoded, and the "+!#"
\* it made the decoder queue was written with no read after it
C29_Witness ==
    /\ pc = "loop"
    /\ Len(out_data) >= 2
    /\ out_data[1].want_reply
    /\ out_data[Len(out_data)].command = "+!#"
    /\ ~out_data[Len(out_data)].want_reply
    /\ command_item = out_data[Len(out_data)]

\* C30: after a want_reply command has been written read_serial returns
\* and the drain proceeds, also when the device never sends a '#' and
\* each read of the port times out with no byte.
C30_ReplyReadTerminates == (pc = "reply") ~> (pc = "loop")

-----------------------------------------------------------------------------
(* ipc.Message: serialize and deserialize *)

\* a Python list as a value; a str is PyStr(...)
PyList(items) == [t |-> "list", items |-> items]

\* Event.__init__(event_type, **properties)
EventInit(event_type, properties) ==
    [class |-> "Event", type |-> event_type, properties |-> properties]

\* the empty dict
NoKwargs == << >>

\* _get_args of Response and of Event: the args list and the kwargs dict
GetArgs(m) ==
    IF m.class = "Response"
    THEN [args |-> PyList(<< m.text >>), kwargs |-> NoKwargs]
    ELSE [args |-> PyList(<< m.type >>), kwargs |-> m.properties]

\* Message.serialize
Serialize(m) ==
    [class |-> m.class, args |-> GetArgs(m).args, kwargs |-> GetArgs(m).kwargs]

\* the names _recursive_subclasses(Message) maps to classes
Classmap == {"Response", "Event"}

\* as Construct, the args list unpacked into the positional arguments
ConstructUnpacked(class, args, kwargs) ==
    IF class = "Response"
    THEN IF DOMAIN kwargs # {} \/ Len(args.items) # 1
         THEN Ret(<< >>, << >>, "InvalidSerialization")
         ELSE Ret(<< >>, Response(args.items[1]), "")
    ELSE IF Len(args.items) # 1 \/ "event_type" \in DOMAIN kwargs
         THEN Ret(<< >>, << >>, "InvalidSerialization")
         ELSE Ret(<< >>, EventInit(args.items[1], kwargs), "")

\* classmap[obj["class"]](obj["args"], **obj["kwargs"]): the args list is
\* the one positional argument; the TypeError of a keyword the constructor
\* does not take, or of a second value for event_type, is raised as
\* InvalidSerialization
Construct(class, args, kwargs) ==
    IF class = "Response"
    THEN IF DOMAIN kwargs # {}
         THEN Ret(<< >>, << >>, "InvalidSerialization")
         ELSE Ret(<< >>, Response(args), "")
    ELSE IF "event_type" \in DOMAIN kwargs
         THEN Ret(<< >>, << >>, "InvalidSerialization")
         ELSE Ret(<< >>, EventInit(args, kwargs), "")

\* isinstance(obj, Message): a Response or an Event, not a dict
IsMessage(obj) == "text" \in DOMAIN obj \/ "type" \in DOMAIN obj

\* one iteration of the loop of Message.deserialize: the KeyError of
\* obj["class"], of classmap[...], of obj["args"] and of obj["kwargs"] is
\* raised as UnknownMessage
DeserializeOne(obj) ==
    IF IsMessage(obj) THEN Ret(<< >>, obj, "")
    ELSE IF "class" \notin DOMAIN obj THEN Ret(<< >>, << >>, "UnknownMessage")
    ELSE IF obj.class \notin Classmap THEN Ret(<< >>, << >>, "UnknownMessage")
    ELSE IF "args" \notin DOMAIN obj THEN Ret(<< >>, << >>, "UnknownMessage")
    ELSE IF "kwargs" \notin DOMAIN obj
    THEN Ret(<< >>, << >>, "UnknownMessage")
    ELSE Construct(obj.class, obj.args, obj.kwargs)

\* Message.deserialize(objects): ret is the list returned
RECURSIVE Deserialize(_)
Deserialize(objs) ==
    IF objs = << >> THEN Ret(<< >>, << >>, "")
    ELSE IF DeserializeOne(Head(objs)).exc # "" THEN DeserializeOne(Head(objs))
    ELSE IF Deserialize(Tail(objs)).exc # "" THEN Deserialize(Tail(objs))
    ELSE Ret(<< >>, << DeserializeOne(Head(objs)).ret >>
                        \o Deserialize(Tail(objs)).ret, "")

\* the most round trips a message makes
MaxTrips == 3

Texts ==
    { PyStr(<< >>), PyStr(<< "O", "K" >>), PyStr(<< "A", "C", "K" >>),
      PyStr(<< "N", "O", "K" >>) }

Types ==
    { PyStr(<< "c", "o", "m", "m", "a", "n", "d" >>),
      PyStr(<< "r", "e", "q", "u", "e", "s", "t" >>), PyStr(<< "x" >>) }

Properties ==
    { NoKwargs }
    \cup { [key |-> k, value |-> v] :
              k \in {"color", "status"},
              v \in { PyStr(<< "1" >>), PyStr(<< "d", "i", "m" >>), PyNum(1) } }

\* the messages a program constructs
ConstructedMessages ==
    { Response(text) : text \in Texts }
    \cup { EventInit(type, properties) :
              type \in Types, properties \in Properties }

InitMsg ==
    /\ DaemonIs(Constructed(FALSE))
    /\ DrainAtRest /\ LinkAtRest
    /\ pinger_pc = "off"
    /\ response = [ret |-> << >>, exc |-> ""]
    /\ msg \in ConstructedMessages
    /\ objects = << msg >>
    /\ trips = 0
    /\ NetAtRest
    /\ pre = NoPre

\* deserialize returns with r: the one message of the list is kept
Deserialized(r) ==
    /\ r.exc = ""
    /\ Len(r.ret) = 1
    /\ msg' = r.ret[1]

\* msg is serialized, and the serialized object deserialized
RoundTrip ==
    /\ trips < MaxTrips
    /\ Deserialized(Deserialize(<< Serialize(msg) >>))
    /\ trips' = trips + 1
    /\ pre' = [op |-> "roundtrip", arg |-> << msg >>, d |-> << >>]
    /\ UNCHANGED << daemonVars, drainVars, linkVars, pinger_pc, objects,
                    response, netVars >>

\* msg itself is handed to deserialize
DeserializeMessage ==
    /\ Deserialized(Deserialize(<< msg >>))
    /\ pre' = [op |-> "message", arg |-> << msg >>, d |-> << >>]
    /\ UNCHANGED << daemonVars, drainVars, linkVars, pinger_pc, objects,
                    response, trips, netVars >>

\* serialized objects a peer sends: well formed, of an unknown class,
\* without a class, without args, without kwargs, with keywords the
\* constructor does not take
PeerObjects ==
    { [class |-> "Response", args |-> PyList(<< PyStr(<< "O", "K" >>) >>),
       kwargs |-> NoKwargs],
      [class |-> "Event", args |-> PyStr(<< "x" >>),
       kwargs |-> [key |-> "color", value |-> PyStr(<< "1" >>)]],
      [class |-> "Bogus", args |-> PyList(<< PyStr(<< "O", "K" >>) >>),
       kwargs |-> NoKwargs],
      [class |-> "Message", args |-> PyList(<< >>), kwargs |-> NoKwargs],
      [args |-> PyList(<< PyStr(<< "O", "K" >>) >>), kwargs |-> NoKwargs],
      [class |-> "Response", kwargs |-> NoKwargs],
      [class |-> "Event", args |-> PyList(<< PyStr(<< "x" >>) >>)],
      [class |-> "Response", args |-> PyList(<< PyStr(<< "O", "K" >>) >>),
       kwargs |-> [key |-> "color", value |-> PyStr(<< "1" >>)]],
      [class |-> "Event", args |-> PyList(<< PyStr(<< "x" >>) >>),
       kwargs |-> [event_type |-> PyStr(<< "y" >>)]] }

\* the object obj of a peer is handed to deserialize
DeserializePeer(obj) ==
    /\ response' = Outcome(Deserialize(<< obj >>))
    /\ pre' = [op |-> "deserialize", arg |-> << obj >>, d |-> << >>]
    /\ UNCHANGED << daemonVars, drainVars, linkVars, pinger_pc, objects,
                    msgVars, netVars >>

NextMsg ==
    \/ RoundTrip
    \/ DeserializeMessage
    \/ \E obj \in PeerObjects : DeserializePeer(obj)

SpecMsg == InitMsg /\ [][NextMsg]_vars

\* the value v in n lists, one inside the other
RECURSIVE Nested(_, _)
Nested(v, n) == IF n = 0 THEN v ELSE PyList(<< Nested(v, n - 1) >>)

\* the class and the observable fields of m are those of o
SameFields(m, o) ==
    /\ m.class = o.class
    /\ IF o.class = "Response" THEN m.text = o.text
       ELSE m.type = o.type /\ m.properties = o.properties

\* C6 as stated: Message.deserialize([m.serialize()]) yields one message of
\* the class of m whose observable fields (Event.type and Event.properties,
\* Response.text) equal those of m, however often the round trip is made.
C6_RoundTripIdentity == SameFields(msg, objects[1])

\* C6: Message.deserialize([m.serialize()]) yields one message of the class
\* of m with the properties of m, whose type (text, for a Response) is the
\* one-element list holding the type (text) of m: n round trips put the
\* original value in n lists.
C6_RoundTripWraps ==
    /\ msg.class = objects[1].class
    /\ IF msg.class = "Response"
       THEN msg.text = Nested(objects[1].text, trips)
       ELSE /\ msg.type = Nested(objects[1].type, trips)
            /\ msg.properties = objects[1].properties
    /\ pre.op = "roundtrip" =>
          /\ msg.class = pre.arg[1].class
          /\ IF msg.class = "Response"
             THEN msg.text = PyList(<< pre.arg[1].text >>)
             ELSE /\ msg.type = PyList(<< pre.arg[1].type >>)
                  /\ msg.properties = pre.arg[1].properties

\* an Event went through two round trips
C6_Witness ==
    /\ pre.op = "roundtrip"
    /\ trips = 2
    /\ objects[1] = EventInit(PyStr(<< "c", "o", "m", "m", "a", "n", "d" >>),
                              [key |-> "color", value |-> PyStr(<< "1" >>)])
    /\ msg.type = PyList(<< PyList(<< objects[1].type >>) >>)

\* the class tag of obj names a registered Message variant
KnownClass(obj) == "class" \in DOMAIN obj /\ obj.class \in {"Response", "Event"}

\* obj lacks args or kwargs, or they do not fit the constructor of its class
Malformed(obj) ==
    \/ "args" \notin DOMAIN obj
    \/ "kwargs" \notin DOMAIN obj
    \/ obj.class = "Response" /\ DOMAIN obj.kwargs # {}
    \/ obj.class = "Event" /\ "event_type" \in DOMAIN obj.kwargs

\* C20: Message.deserialize raises UnknownMessage exactly when the class tag
\* of an object names no registered variant, and InvalidSerialization when
\* the tag is known but the object lacks args or kwargs or does not fit the
\* constructor; an object well formed raises nothing.
C20_DeserializeErrors ==
    pre.op = "deserialize" =>
        response.exc =
            IF ~KnownClass(pre.arg[1]) THEN "UnknownMessage"
            ELSE IF Malformed(pre.arg[1]) THEN "InvalidSerialization"
            ELSE ""

-----------------------------------------------------------------------------
(* IPC: Server.run, Server.shutdown and the socket server they drive *)

\* run() up to the end of the with statement's header: the socket server is
\* constructed, bound and listening
RunCreate ==
    /\ server.run_pc = "start"
    /\ server' = [server EXCEPT !.run_pc = "created", !.listening = TRUE]

\* the socket server's constructor cannot bind the address: OSError leaves
\* run(), and the thread that runs it ends
RunCreateFails ==
    /\ server.run_pc = "start"
    /\ server' = [server EXCEPT !.run_pc = "raised"]

\* self._server = server_instance
RunAssign ==
    /\ server.run_pc = "created"
    /\ server' = [server EXCEPT !.run_pc = "assigned", !.instance = TRUE]

\* serve_forever is entered: is_shut_down is cleared
RunServeEnter ==
    /\ server.run_pc = "assigned"
    /\ server' = [server EXCEPT !.run_pc = "serve", !.is_shut_down = FALSE]

\* serve_forever's loop finds shutdown_request set and leaves: the request
\* is reset and is_shut_down set
RunServeExit ==
    /\ server.run_pc = "serve"
    /\ server.shutdown_request
    /\ server' = [server EXCEPT !.run_pc = "exit",
                                !.shutdown_request = FALSE,
                                !.is_shut_down = TRUE]

\* server_close() of the threading socket server waits for the threads of
\* the connections it accepted
ThreadsJoined == \A c \in Conns : conns[c].handler \in {"none", "ended"}

\* the with statement is left: server_close(), and run() returns
RunReturn ==
    /\ server.run_pc = "exit"
    /\ ThreadsJoined
    /\ server' = [server EXCEPT !.run_pc = "returned", !.listening = FALSE]

\* shutdown() is called: without a server instance it returns at once, with
\* one it asks serve_forever to stop
ShutdownCall ==
    /\ server.shutdown_pc = "idle"
    /\ server' = IF server.instance
                 THEN [server EXCEPT !.shutdown_pc = "wait",
                                     !.shutdown_request = TRUE]
                 ELSE [server EXCEPT !.shutdown_pc = "returned"]

\* self._server.shutdown() has waited for is_shut_down; server_close(), and
\* shutdown() returns
ShutdownReturn ==
    /\ server.shutdown_pc = "wait"
    /\ server.is_shut_down
    /\ ThreadsJoined
    /\ server' = [server EXCEPT !.shutdown_pc = "returned",
                                !.listening = FALSE]

\* a step of the thread that runs Server.run
RunStep ==
    \/ RunCreate
    \/ RunCreateFails
    \/ RunAssign
    \/ RunServeEnter
    \/ RunServeExit
    \/ RunReturn

\* a step of the thread that calls Server.shutdown
ShutdownStep == ShutdownCall \/ ShutdownReturn


-----------------------------------------------------------------------------
(* IPC: Client, the connection and the handler thread of the connection *)

\* the most batches the clients send, all connections together
MaxSends == 2

\* conns with the fields of connection c replaced
Conn(c, fields) == conns' = [conns EXCEPT ![c] = fields]

\* a frame as _write_objects writes it: the serialized objects, and whether
\* the receiver's one recv() for header or body returns a part of it only
Frame(objs, split) ==
    [payload |-> [i \in 1..Len(objs) |-> Serialize(objs[i])],
     split   |-> split]

\* the batches cli.py builds, each of one Event: a color command, a status
\* request and an information request
ClientBatches ==
    { << EventInit(PyStr(<< "c", "o", "m", "m", "a", "n", "d" >>),
                   [key   |-> "color",
                    value |-> PyStr(<< "2", "5", "5", ":", "0", ":", "0" >>)])
      >>,
      << EventInit(PyStr(<< "r", "e", "q", "u", "e", "s", "t" >>),
                   [key   |-> "status",
                    value |-> PyStr(<< "c", "o", "l", "o", "r" >>)]) >>,
      << EventInit(PyStr(<< "r", "e", "q", "u", "e", "s", "t" >>),
                   [key   |-> "information",
                    value |-> PyStr(<< "a", "l", "l" >>)]) >> }

\* all batches sent so far
Sends == Len(conns[1].sends) + Len(conns[2].sends)

\* Client.connect: ConnectionRefused unless the server listens
ClientConnect(c) ==
    /\ conns[c].client = "new"
    /\ Conn(c, IF server.listening
               THEN [conns[c] EXCEPT !.client = "ready", !.connected = TRUE]
               ELSE [conns[c] EXCEPT !.client = "raised"])

\* Client.send, its _write_objects
ClientWrite(c, objs, split) ==
    /\ conns[c].client = "ready"
    /\ Sends < MaxSends
    /\ Conn(c, [conns[c] EXCEPT
                   !.client = "sent",
                   !.sends = Append(@, objs),
                   !.to_server = Append(@, Frame(objs, split))])

\* Client.send returns r, or raises r.exc
ClientReturn(c, r) ==
    Conn(c, [conns[c] EXCEPT
                !.client = IF r.exc = "" THEN "ready" ELSE "raised",
                !.to_client = IF @ = << >> THEN @ ELSE Tail(@),
                !.results = Append(@, Outcome(r))])

\* Client.send, its _read_objects: a whole frame is decoded, a part of one
\* is not JSON, and no bytes from a peer that is gone is ConnectionClosed
ClientRead(c) ==
    /\ conns[c].client = "sent"
    /\ IF conns[c].to_client # << >>
       THEN IF Head(conns[c].to_client).split
            THEN ClientReturn(c, Ret(<< >>, << >>, "JSONDecodeError"))
            ELSE ClientReturn(c, Deserialize(Head(conns[c].to_client).payload))
       ELSE /\ \/ conns[c].sock_closed
               \/ conns[c].handler = "none" /\ ~server.listening
            /\ ClientReturn(c, Ret(<< >>, << >>, "ConnectionClosed"))

\* Client.close, as __exit__ calls it
ClientClose(c) ==
    /\ conns[c].client \in {"ready", "raised"}
    /\ Conn(c, [conns[c] EXCEPT !.client = "closed"])

\* serve_forever's loop accepts the connection and starts its thread
Accept(c) ==
    /\ server.run_pc = "serve"
    /\ ~server.shutdown_request
    /\ conns[c].connected
    /\ conns[c].handler = "none"
    /\ Conn(c, [conns[c] EXCEPT !.handler = "read"])

\* the Event m as the handler reads it: type[0], and the properties
AsHandled(m) ==
    Event(<< Join(m.type.items[1].s) >>, m.properties.key, m.properties.value)

\* the handler's try block raised something other than ConnectionClosed:
\* sock.close(), and on to _write_objects
HandlerRaised(c) ==
    Conn(c, [conns[c] EXCEPT !.handler = "write", !.sock_closed = TRUE,
                             !.failed = TRUE, !.to_server = Tail(@)])

\* the Responses the callback returned, each text a Python str
AsReturned(ret) == [i \in 1..Len(ret) |-> Response(PyStr(ret[i].text))]

\* server._callback(objs) ended with the outcome r
HandlerCalled(c, objs, r) ==
    /\ SetDaemon(r.d)
    /\ Conn(c, [conns[c] EXCEPT
                   !.handler = "write",
                   !.to_server = Tail(@),
                   !.calls = Append(@, [objs |-> objs,
                                        ret  |-> AsReturned(r.ret),
                                        exc  |-> r.exc]),
                   !.response = IF r.exc = "" THEN AsReturned(r.ret) ELSE @,
                   !.sock_closed = (r.exc # ""),
                   !.failed = (r.exc # "")])

\* server._callback(objs), the daemon's __process_server_request
HandlerCall(c, objs) ==
    HandlerCalled(c, objs,
        ProcessServerRequest(Daemon,
                             [i \in 1..Len(objs) |-> AsHandled(objs[i])]))

\* _read_objects returned or raised: r
HandlerDecoded(c, r) ==
    IF r.exc # ""
    THEN HandlerRaised(c) /\ UNCHANGED daemonVars
    ELSE HandlerCall(c, r.ret)

\* the try block of the handler's loop: _read_objects, then the callback
HandlerRead(c) ==
    /\ conns[c].handler = "read"
    /\ IF conns[c].to_server # << >>
       THEN IF Head(conns[c].to_server).split
            THEN HandlerRaised(c) /\ UNCHANGED daemonVars
            ELSE HandlerDecoded(c, Deserialize(Head(conns[c].to_server).payload))
       ELSE /\ conns[c].client = "closed"
            /\ Conn(c, [conns[c] EXCEPT !.handler = "ended",
                                        !.sock_closed = TRUE])
            /\ UNCHANGED daemonVars

\* as HandlerWrite, the closed socket taking the bytes all the same
HandlerWriteAnyway(c, split) ==
    Conn(c, [conns[c] EXCEPT
                !.handler = "read",
                !.written = @ + 1,
                !.to_client = Append(@, Frame(conns[c].response, split))])

\* _write_objects(sock, response) after the try block: on the socket the
\* except clause closed it raises OSError, which ends handle()
HandlerWrite(c, split) ==
    IF conns[c].sock_closed
    THEN Conn(c, [conns[c] EXCEPT !.handler = "ended"])
    ELSE Conn(c, [conns[c] EXCEPT
                     !.handler = "read",
                     !.written = @ + 1,
                     !.to_client = Append(@, Frame(conns[c].response, split))])

\* the handler's loop arrives at _write_objects
HandlerRespond(c, split) ==
    /\ conns[c].handler = "write"
    /\ HandlerWrite(c, split)

InitIpc ==
    /\ DaemonIs(Replied(<< "+", "!", "#" >>))
    /\ pc = "idle"
    /\ retries = 0 /\ queue_count = 0 /\ command_item = NoItem
    /\ input_data = << >> /\ fails = 0 /\ dropped = << >>
    /\ LinkAtRest /\ IpcAtRest /\ MsgAtRest /\ NetAtRest
    /\ pinger_pc = "off"
    /\ pre = NoPre

\* a step of the server's threads
ServerStep ==
    /\ RunStep \/ ShutdownStep
    /\ pre' = NoPre
    /\ UNCHANGED << daemonVars, conns, rx, threads, drainVars, linkVars,
                    ipcVars, msgVars, pinger_pc >>

\* a step of a client
ClientStep(c) ==
    /\ \/ ClientConnect(c)
       \/ \E objs \in ClientBatches : \E split \in BOOLEAN :
              ClientWrite(c, objs, split)
       \/ ClientRead(c)
       \/ ClientClose(c)
    /\ pre' = NoPre
    /\ UNCHANGED << daemonVars, server, rx, threads >>

\* a step of the socket server for connection c
ConnectionStep(c) ==
    /\ \/ Accept(c) /\ UNCHANGED daemonVars
       \/ HandlerRead(c)
       \/ (\E split \in BOOLEAN : HandlerRespond(c, split))
              /\ UNCHANGED daemonVars
    /\ pre' = [op |-> "connection", arg |-> << c >>, d |-> << >>]
    /\ UNCHANGED << server, rx, threads >>

NextIpc ==
    \/ ServerStep
    \/ /\ \/ \E c \in Conns : ClientStep(c)
          \/ \E c \in Conns : ConnectionStep(c)
       /\ UNCHANGED << drainVars, linkVars, ipcVars, msgVars, pinger_pc >>

SpecIpc == InitIpc /\ [][NextIpc]_vars

\* the thread of Server.run is scheduled, and so is the one of shutdown
SpecIpcLive ==
    InitIpc /\ [][NextIpc]_vars
        /\ WF_vars(ServerStep)


-----------------------------------------------------------------------------
(* Properties of the IPC server *)

\* C19: for every interleaving of Server.run() with Server.shutdown(), once
\* shutdown() has returned run() eventually returns, shutdown() called
\* before run() has created the socket server included.
C19_ShutdownStopsRun ==
    (server.shutdown_pc = "returned")
        ~> (server.run_pc \in {"returned", "raised"})


\* how many calls of the callback on connection c returned
Answered(c) ==
    Cardinality({ i \in 1..Len(conns[c].calls) : conns[c].calls[i].exc = "" })

\* on every connection the only response batches written are those of the
\* requests the callback returned for, and a connection whose request
\* raised is closed and its loop reads no further request
Isolated ==
    \A c \in Conns :
        /\ conns[c].written =
               IF conns[c].handler = "write" /\ ~conns[c].failed
               THEN Answered(c) - 1 ELSE Answered(c)
        /\ conns[c].failed =>
               /\ conns[c].sock_closed
               /\ conns[c].handler \in {"write", "ended"}
        /\ \A d \in Conns :
               (conns[d].failed /\ server.run_pc = "serve"
                   /\ ~server.shutdown_request /\ conns[c].connected
                   /\ conns[c].handler = "none") => ENABLED Accept(c)

\* a step in which a request on connection c raises, or the loop of such a
\* connection ends, changes neither the server nor another connection
IsolationStep ==
    \A c \in Conns :
        (conns'[c].failed /\ conns'[c] # conns[c]) =>
            /\ server' = server
            /\ \A d \in Conns \ {c} : conns'[d] = conns[d]

\* C18: if the handler or the decoding raises for a request on one
\* connection, no response batch is written on it for that request, its
\* handling loop ends, and the server keeps accepting new connections and
\* serving the other open connections.
C18_ErrorIsolation == []Isolated /\ [][IsolationStep]_vars

\* connection 2 was accepted after the handler had raised on connection 1,
\* whose loop ended without a response written
C18_Witness ==
    /\ conns[1].failed /\ conns[1].handler = "ended"
    /\ Len(conns[1].calls) = 1 /\ conns[1].calls[1].exc # ""
    /\ conns[1].written = 0 /\ conns[1].to_client = << >>
    /\ pre.op = "connection" /\ pre.arg = << 2 >>
    /\ conns[2].handler = "read"
    /\ conns[2].calls = << >> /\ ~conns[2].failed


\* the batch objs as the peer's _read_objects decodes it
Decoded(objs) == Deserialize(Frame(objs, FALSE).payload).ret

\* C17: for each batch a Client sends on a connection the server invokes
\* the handler exactly once with the decoded batch, and Client.send returns
\* exactly the batch the handler returned for that request; the requests of
\* a connection are handled one at a time in arrival order.  (A send the
\* server stopped before accepting its connection has no handler.)
C17_RequestResponse ==
    \A c \in Conns :
        /\ Len(conns[c].calls) <= Len(conns[c].sends)
        /\ \A i \in 1..Len(conns[c].calls) :
               conns[c].calls[i].objs = Decoded(conns[c].sends[i])
        /\ \A i \in 1..Len(conns[c].results) :
               conns[c].handler # "none" =>
               /\ Len(conns[c].calls) >= i
               /\ conns[c].calls[i].exc = "" =>
                      conns[c].results[i] =
                          [ret |-> conns[c].calls[i].ret, exc |-> ""]


-----------------------------------------------------------------------------
(* IPC on the wire: _write_objects and _read_objects, byte by byte *)

\* the most objects of a batch on the wire
MaxObjects == 2

\* a byte of a 4-byte header, and the bytes of a JSON text: the brackets,
\* the comma, and one byte standing for the text of a serialized object
ByteOf(n)   == [b |-> "int", n |-> n]
Bracket(c)  == [b |-> c]
ObjectOf(o) == [b |-> "object", o |-> o]

\* struct.pack("!i", n) for n below 2^31: four bytes, the highest first
Pack(n) ==
    << ByteOf(n \div 16777216), ByteOf((n \div 65536) % 256),
       ByteOf((n \div 256) % 256), ByteOf(n % 256) >>

\* struct.unpack("!i", header)[0] of four bytes
Unpack(header) ==
    header[1].n * 16777216 + header[2].n * 65536 + header[3].n * 256
        + header[4].n

\* json.dumps of a list of serialized objects
RECURSIVE JsonItems(_)
JsonItems(objs) ==
    IF objs = << >> THEN << >>
    ELSE IF Len(objs) = 1 THEN << ObjectOf(objs[1]) >>
    ELSE << ObjectOf(objs[1]), Bracket(",") >> \o JsonItems(Tail(objs))

JsonDumps(objs) == << Bracket("[") >> \o JsonItems(objs) \o << Bracket("]") >>

\* the objects of the text items, when it is object, comma, object, ...
RECURSIVE ParseItems(_)
ParseItems(items) ==
    IF items = << >> THEN [ok |-> TRUE, objs |-> << >>]
    ELSE IF items[1].b # "object" THEN [ok |-> FALSE, objs |-> << >>]
    ELSE IF Len(items) = 1 THEN [ok |-> TRUE, objs |-> << items[1].o >>]
    ELSE IF items[2].b # "," \/ Len(items) = 2
         THEN [ok |-> FALSE, objs |-> << >>]
    ELSE [ok   |-> ParseItems(SubSeq(items, 3, Len(items))).ok,
          objs |-> << items[1].o >>
                       \o ParseItems(SubSeq(items, 3, Len(items))).objs]

\* json.loads(data): the list, or JSONDecodeError for a text that is not
\* a whole JSON list
JsonLoads(data) ==
    IF Len(data) < 2 THEN Ret(<< >>, << >>, "JSONDecodeError")
    ELSE IF data[1].b # "[" \/ data[Len(data)].b # "]"
    THEN Ret(<< >>, << >>, "JSONDecodeError")
    ELSE IF ~ParseItems(SubSeq(data, 2, Len(data) - 1)).ok
    THEN Ret(<< >>, << >>, "JSONDecodeError")
    ELSE Ret(<< >>, ParseItems(SubSeq(data, 2, Len(data) - 1)).objs, "")

\* the bytes _write_objects sends for the messages objs
WriteObjects(objs) ==
    Pack(Len(JsonDumps([i \in 1..Len(objs) |-> Serialize(objs[i])])) + 4)
        \o JsonDumps([i \in 1..Len(objs) |-> Serialize(objs[i])])

\* the messages a peer writes
WireMessages ==
    { Response(PyStr(<< "O", "K" >>)),
      EventInit(PyList(<< PyStr(<< "c", "o", "m", "m", "a", "n", "d" >>) >>),
                [key |-> "dim", value |-> PyNum(1)]) }

WireBatches == UNION { [1..n -> WireMessages] : n \in 0..MaxObjects }

\* _read_objects is about to be called on a socket whose peer has written
\* the first cut bytes of the frame of batch and, short of the whole frame,
\* has closed
RxInit(batch, cut) ==
    [pc     |-> "header",
     batch  |-> batch,
     stream |-> SubSeq(WriteObjects(batch), 1, cut),
     closed |-> cut < Len(WriteObjects(batch)),
     size   |-> 0,
     result |-> [ret |-> << >>, exc |-> ""]]

\* _read_objects ends: it returns r.ret or raises r.exc
RxEnds(r) ==
    rx' = [rx EXCEPT !.pc = "done", !.result = Outcome(r)]

\* header = sock.recv(4) hands out the k bytes that have arrived, none
\* when the peer has closed; no bytes is ConnectionClosed, fewer than four
\* make struct.unpack raise
RecvHeader(k) ==
    /\ rx.pc = "header"
    /\ IF rx.stream = << >>
       THEN /\ rx.closed /\ k = 0
            /\ RxEnds(Ret(<< >>, << >>, "ConnectionClosed"))
       ELSE /\ k \in 1..Min(4, Len(rx.stream))
            /\ IF k < 4
               THEN RxEnds(Ret(<< >>, << >>, "struct.error"))
               ELSE rx' = [rx EXCEPT
                              !.pc = "body",
                              !.size = Unpack(SubSeq(rx.stream, 1, 4)),
                              !.stream = SubSeq(@, 5, Len(@))]

\* Message.deserialize(json.loads(data))
Decode(loaded) ==
    IF loaded.exc # "" THEN loaded ELSE Deserialize(loaded.ret)

\* data = sock.recv(size - 4) hands out the k bytes that have arrived, none
\* when the peer has closed; no bytes is ConnectionClosed, and whatever
\* came is given to json.loads
RecvBody(k) ==
    /\ rx.pc = "body"
    /\ IF rx.stream = << >>
       THEN /\ rx.closed /\ k = 0
            /\ RxEnds(Ret(<< >>, << >>, "ConnectionClosed"))
       ELSE /\ k \in 1..Min(rx.size - 4, Len(rx.stream))
            /\ RxEnds(Decode(JsonLoads(SubSeq(rx.stream, 1, k))))

InitWire ==
    /\ DaemonIs(Constructed(FALSE))
    /\ DrainAtRest /\ LinkAtRest /\ IpcAtRest /\ MsgAtRest
    /\ server = ServerInit
    /\ conns = [c \in Conns |-> ConnInit]
    /\ ThreadsAtRest
    /\ \E batch \in WireBatches :
          \E cut \in 0..Len(WriteObjects(batch)) : rx = RxInit(batch, cut)
    /\ pinger_pc = "off"
    /\ pre = NoPre

NextWire ==
    /\ \/ \E k \in 0..4 : RecvHeader(k)
       \/ \E k \in 0..Len(rx.stream) : RecvBody(k)
    /\ UNCHANGED << daemonVars, drainVars, linkVars, ipcVars, msgVars,
                    server, conns, threads, pinger_pc, pre >>

SpecWire == InitWire /\ [][NextWire]_vars

\* the whole frame of rx.batch was written
WholeFrame == ~rx.closed

\* C21: _read_objects returns the batch of a frame however the frame's
\* bytes are split across receives, and raises ConnectionClosed when the
\* peer closes before the header or the body is complete.
C21_WireDecoding ==
    rx.pc = "done" =>
        IF WholeFrame
        THEN rx.result = Outcome(Deserialize(
                 [i \in 1..Len(rx.batch) |-> Serialize(rx.batch[i])]))
        ELSE rx.result = [ret |-> << >>, exc |-> "ConnectionClosed"]


-----------------------------------------------------------------------------
(* DsulDaemon.run from its start: the IPC server's thread and the
   command-processing loop; the pinger and the clients stay silent *)

\* a step of the thread ipc_process starts for Server.run
IpcServerThread(A) ==
    /\ pc # "run"
    /\ A
    /\ pre' = NoPre
    /\ UNCHANGED << daemonVars, drainVars, linkVars, ipcVars, msgVars,
                    conns, rx, threads, pinger_pc >>

InitStart == InitDrain

NextStart ==
    \/ RunThreads
    \/ RunInformationRequest
    \/ IpcServerThread(RunCreate)
    \/ IpcServerThread(RunCreateFails)
    \/ IpcServerThread(RunAssign)
    \/ IpcServerThread(RunServeEnter)
    \/ ProcessCommandsEnter
    \/ ProcessCommandsReturn
    \/ DrainPop
    \/ WriteOk
    \/ WriteFail
    \/ Link(ReadSerialEnter("reply"))
    \/ Link(\E i \in 1..Len(in_waiting) : ReadChunk(i))
    \/ Link(ReadNothing)
    \/ Link(ReadFail)
    \/ DecodeInput
    \/ Link(\E frame \in DeviceFrames :
                Len(sent) < MaxSent /\ DeviceSend(frame)
                    /\ UNCHANGED << pc, input_data >>)
    \/ Link(Arrive(Len(wire)) /\ UNCHANGED << pc, input_data >>)

SpecStart == InitStart /\ [][NextStart]_vars

\* C22: if the IPC server cannot bind its listening address the daemon
\* terminates: once the bind has failed run() enters its
\* command-processing loop no more.
C22_FatalBindFailure ==
    [][(server.run_pc = "raised" /\ pc = "idle") => pc' # "loop"]_vars




-----------------------------------------------------------------------------
(* The serial link's life: init_serial, deinit_serial, frames decoded, IPC
   requests handled and the interrupt of run() *)

\* the frames decoded on the link
SerialFrames == { Ok, BoundsAndMode, DimOn }

\* the batches handled while the link opens and closes
SerialBatches ==
    { << Event(<< "command" >>, "color",
               PyStr(<< "2", "5", "5", ":", "0", ":", "0" >>)) >> }

\* the daemon becomes d by the call op, the process still running
Called(op, arg, d) ==
    /\ pc # "exit"
    /\ next_seq < MaxEnqueued
    /\ SetDaemon(d)
    /\ pre' = Pre(op, arg)
    /\ UNCHANGED << drainVars, linkVars, ipcVars, msgVars, netVars,
                    pinger_pc >>

\* init_serial is called: by the drain for a popped command, or directly
CallInitSerial(opens) ==
    Called("init_serial", << >>, InitSerial(Daemon, opens))

\* deinit_serial is called
CallDeinitSerial ==
    Called("deinit_serial", << >>, DeinitSerial(Daemon))

\* the drain has written a command on the open port and decodes the frame
\* that came back
DecodeFrame(frame) ==
    /\ is_open /\ serial_active
    /\ Called("decode", frame, GetSerialInput(Daemon, frame))

\* a connection thread handles a batch; the threads run until the process
\* has joined them
ServeRequest(objs) ==
    /\ next_seq < MaxEnqueued
    /\ IpcRequest(objs)
    /\ UNCHANGED << drainVars, linkVars, msgVars, netVars, pinger_pc >>

\* KeyboardInterrupt or SystemExit reaches run(): the except clause, up to
\* the joins of the threads
Interrupt ==
    /\ pc # "exit"
    /\ SetDaemon(Interrupted(Daemon))
    /\ pc' = "exit"
    /\ pre' = Pre("interrupt", << >>)
    /\ UNCHANGED << retries, queue_count, command_item, input_data, fails,
                    dropped, linkVars, ipcVars, msgVars, netVars, pinger_pc >>

InitSerialLife ==
    /\ \E opens \in BOOLEAN : DaemonIs(Constructed(opens))
    /\ DrainAtRest /\ LinkAtRest /\ IpcAtRest /\ MsgAtRest /\ NetAtRest
    /\ pinger_pc = "off"
    /\ pre = NoPre

NextSerial ==
    \/ \E opens \in BOOLEAN : CallInitSerial(opens)
    \/ CallDeinitSerial
    \/ \E frame \in SerialFrames : DecodeFrame(frame)
    \/ \E objs \in SerialBatches : ServeRequest(objs)
    \/ Interrupt

SpecSerial == InitSerialLife /\ [][NextSerial]_vars

\* the port was closed and init_serial opened it
Opened == [pre.d EXCEPT !.is_open = TRUE, !.serial_active = TRUE,
                        !.serial_verified = FALSE]

\* C23: init_serial never raises; if opening the port fails it leaves
\* serial_active and serial_verified false; if it opens the port it leaves
\* serial_active true, the port open and serial_verified false; if the port
\* is already open it changes nothing; a closed port is opened by a later
\* call whatever calls failed before.
C23_InitSerial ==
    pre.op = "init_serial" =>
        IF pre.d.is_open THEN Daemon = pre.d
        ELSE \/ /\ is_open /\ serial_active /\ ~serial_verified
                /\ CurrentStatesCall(Opened).exc = ""
                /\ Daemon = CurrentStatesCall(Opened).d
             \/ /\ ~is_open /\ ~serial_active /\ ~serial_verified
                /\ Daemon = [pre.d EXCEPT !.serial_active = FALSE,
                                          !.serial_verified = FALSE]

\* a verified link was closed, and init_serial opened the port again: the
\* daemon is not verified, and the color it had is queued for the device
C23_Witness ==
    /\ pre.op = "init_serial"
    /\ ~pre.d.is_open /\ pre.d.serial_verified
    /\ pre.d.current_color # PyStr(<< >>)
    /\ is_open /\ serial_active /\ ~serial_verified
    /\ Len(send_commands) = Len(pre.d.send_commands) + 1

\* C24: after deinit_serial the port is closed; called on a port that is
\* closed or was never opened it raises nothing and changes nothing, so a
\* second deinit_serial has the effect of none.
C24_DeinitIdempotent ==
    pre.op = "deinit_serial" =>
        /\ ~is_open
        /\ Daemon = [pre.d EXCEPT !.is_open = FALSE]
        /\ DeinitSerial(Daemon) = Daemon
        /\ ~pre.d.is_open => Daemon = pre.d

\* deinit_serial was called on a port that had been closed by deinit_serial
C24_Witness ==
    /\ pre.op = "deinit_serial"
    /\ ~pre.d.is_open /\ pre.d.serial_active
    /\ ~is_open

\* C25: in every reachable state serial_verified implies serial_active and
\* the port open; on link loss or after deinit_serial the daemon is back in
\* Unverified.
C25_VerifiedImpliesLive == serial_verified => (serial_active /\ is_open)

-----------------------------------------------------------------------------
(* Properties of the decoder inside the drain loop *)

\* serial_verified is gained only by the decoding of a '#'-terminated
\* frame, and the decoding of the "" a failed read returned changes neither
\* serial_verified nor the device's state
VerifyStep ==
    /\ (~serial_verified /\ serial_verified') =>
          /\ pc = "input"
          /\ input_data # << >>
          /\ input_data[Len(input_data)] = "#"
    /\ (pc = "input" /\ input_data = << >> /\ pc' # "input") =>
          /\ serial_verified' = serial_verified
          /\ device' = device

\* C31: serial_verified changes from false to true only in a step in which
\* a complete '#'-terminated frame from the device was decoded; a reply
\* read that fails (serial exception, read_serial returning "") leaves
\* serial_verified and the device's state unchanged.
C31_VerificationNeedsFrame == [][VerifyStep]_vars

-----------------------------------------------------------------------------
(* The telemetry decoder: frames decoded one after the other on an open
   link, IPC requests handled in between *)

\* a telemetry frame reporting the dim state off
DimOff == << "c", "d", "0", "#" >>

\* a telemetry frame reporting 0 as lower bound, as brightness and as
\* every color channel
AllZero ==
    << "l", "b", "0", "0", "0", ":", "0", "5", "0",
       "c", "c", "0", "0", "0", "0", "0", "0",
       "c", "b", "0", "0", "0", "#" >>

\* the telemetry frames the device sends
TelemetryFrames == { FullTelemetry, BoundsAndMode, DimOn, DimOff, AllZero }

\* the batches handled between the frames
DecodeBatches ==
    { << Event(<< "command" >>, "dim", PyNum(1)) >>,
      << Event(<< "command" >>, "brightness", PyStr(<< "9" >>)) >> }

InitDecode ==
    /\ DaemonIs(Constructed(TRUE))
    /\ DrainAtRest /\ LinkAtRest /\ IpcAtRest /\ MsgAtRest /\ NetAtRest
    /\ pinger_pc = "off"
    /\ pre = NoPre

NextDecode ==
    \/ \E frame \in TelemetryFrames : DecodeFrame(frame)
    \/ \E objs \in DecodeBatches : ServeRequest(objs)

SpecDecode == InitDecode /\ [][NextDecode]_vars

\* the step observed decoded a telemetry frame
TelemetryDecoded == pre.op = "decode" /\ Len(pre.arg) # 3

\* C32: decoding a telemetry frame in which a field's pattern does not
\* match leaves what the daemon holds for that field (version and LED count
\* of the device, the brightness bounds, current color, brightness, mode
\* and dim) at the value it had before the frame.
C32_AbsentFieldsUntouched ==
    TelemetryDecoded =>
        /\ Search(pre.arg, PatV) = 0 => device.version = pre.d.device.version
        /\ Search(pre.arg, PatLL) = 0 => device.leds = pre.d.device.leds
        /\ Search(pre.arg, PatLB) = 0 => settings = pre.d.settings
        /\ Search(pre.arg, PatCC) = 0 => current_color = pre.d.current_color
        /\ Search(pre.arg, PatCB) = 0 =>
              current_brightness = pre.d.current_brightness
        /\ Search(pre.arg, PatCM) = 0 => current_mode = pre.d.current_mode
        /\ Search(pre.arg, PatCD) = 0 => current_dim = pre.d.current_dim

\* C33: decoding a telemetry frame in which a field is present sets the
\* daemon's value of that field (brightness_min, brightness_max,
\* current_color, current_brightness, current_mode, current_dim) to the
\* value reported, 0 included.
C33_PresentFieldsOverwrite ==
    TelemetryDecoded =>
        LET lb == Search(pre.arg, PatLB)
            cc == Search(pre.arg, PatCC)
            cb == Search(pre.arg, PatCB)
            cm == Search(pre.arg, PatCM)
            cd == Search(pre.arg, PatCD)
        IN  /\ lb # 0 =>
                 /\ settings.brightness_min = Group(pre.arg, lb, 2, 3)
                 /\ settings.brightness_max = Group(pre.arg, lb, 6, 3)
            /\ cc # 0 =>
                 current_color =
                     PyStr(IntToChars(Group(pre.arg, cc, 2, 2)) \o << ":" >>
                           \o IntToChars(Group(pre.arg, cc, 4, 2)) \o << ":" >>
                           \o IntToChars(Group(pre.arg, cc, 6, 2)))
            /\ cb # 0 => current_brightness = PyNum(Group(pre.arg, cb, 2, 3))
            /\ cm # 0 => current_mode = Group(pre.arg, cm, 2, 3)
            /\ cd # 0 => current_dim = Group(pre.arg, cd, 2, 1)

-----------------------------------------------------------------------------
(* Properties of the send actions *)

\* C34: whenever __send_color_command rejects its value (wrong number of
\* ':'-separated parts, or a part that is no integer), current_color and
\* send_commands are exactly what they were before the call.
C34_RejectedColorUnchanged ==
    (Single("color") /\ Returned("ACK, Invalid command/argument")) =>
        /\ current_color = pre.d.current_color
        /\ send_commands = pre.d.send_commands

-----------------------------------------------------------------------------
(* Properties of send_commands shared by the threads *)

\* no two items of q have the same ordinal
Distinct(q) == \A i, j \in 1..Len(q) : i # j => q[i].seq # q[j].seq

\* the drain has a command for each pop it still has to do; no command is
\* queued twice, written twice, or both written and abandoned; no command
\* written, abandoned or being sent is in the queue
Lifecycle ==
    /\ pc = "loop" => queue_count <= Len(send_commands)
    /\ Distinct(send_commands) /\ Distinct(out_data) /\ Distinct(dropped)
    /\ Ordinals(out_data) \cap Ordinals(dropped) = {}
    /\ Ordinals(send_commands) \cap (Ordinals(out_data) \cup Ordinals(dropped))
           = {}
    /\ pc \in {"write", "reply", "read", "input"} =>
          command_item.seq \notin Ordinals(send_commands)

\* a pop takes the head of a queue that is not empty, a command appended
\* after every command popped before, and takes it out of the queue; the
\* write and the abandoning of a command concern the command popped last
\* and append nothing
LifecycleStep ==
    /\ (pc = "loop" /\ queue_count' # queue_count) =>
          /\ send_commands # << >>
          /\ command_item' = Head(send_commands)
          /\ command_item = NoItem \/ command_item'.seq > command_item.seq
          /\ command_item'.seq \notin Ordinals(send_commands')
    /\ out_data' # out_data =>
          /\ out_data' = Append(out_data, command_item)
          /\ pc' # "write"
          /\ UNCHANGED << send_commands, dropped >>
    /\ dropped' # dropped =>
          /\ dropped' = Append(dropped, command_item)
          /\ pc' # "write"
          /\ UNCHANGED << send_commands, out_data >>

\* C35: under any interleaving of the appends of the IPC handler threads
\* and the pinger with the drain loop, every command appended to
\* send_commands is popped at most once, the drain never pops from an empty
\* queue, and a popped command is never appended again or written a second
\* time, whether its send succeeded or was abandoned.
C35_CommandLifecycle == []Lifecycle /\ [][LifecycleStep]_vars

\* a drain that began with one command queued abandoned it, and has left
\* in the queue the command another thread appended meanwhile
C35_Witness ==
    /\ pc = "loop"
    /\ queue_count = 0
    /\ dropped # << >>
    /\ dropped[Len(dropped)] = command_item
    /\ Len(send_commands) = 1
    /\ send_commands[1].command \in {"-?#", "+l255000000#"}
    /\ send_commands[1].seq > command_item.seq

\* q is p with commands appended
Extends(q, p) == Len(p) <= Len(q) /\ SubSeq(q, 1, Len(p)) = p

\* the port's bytes are left alone
PortUntouched == UNCHANGED << out_data, serial_input_buffer, in_waiting >>

\* a command reaches the port only by the write of the command-processing
\* loop, and bytes are taken from the port only by its reply read, neither
\* in a step of the pinger or of an IPC handler thread; the steps of the
\* IPC handler threads, of the pinger and of the decoder leave the port
\* alone and only append to send_commands
SingleWriterStep ==
    /\ out_data' # out_data =>
          /\ pc = "write"
          /\ out_data' = Append(out_data, command_item)
          /\ UNCHANGED << pinger_pc, objects, response, send_commands >>
    /\ (in_waiting' # in_waiting /\ wire' = wire) =>
          /\ pc = "read"
          /\ UNCHANGED << pinger_pc, objects, response, send_commands >>
    /\ serial_input_buffer' # serial_input_buffer =>
          /\ pc \in {"reply", "read"}
          /\ UNCHANGED << pinger_pc, objects, response, send_commands >>
    /\ pre'.op \in {"request", "decode"} =>
          /\ PortUntouched
          /\ Extends(send_commands', send_commands)
    /\ (pinger_pc = "ping" /\ Len(send_commands') > Len(send_commands)
            /\ send_commands'[Len(send_commands')].command = "-?#") =>
          /\ PortUntouched
          /\ Extends(send_commands', send_commands)

\* C36: serial bytes are written only by the command-processing loop
\* (__process_commands calling write_serial); the IPC handler threads, the
\* pinger and the decoder only append to send_commands, so no two
\* activities are ever inside write_serial or read_serial at the same time.
C36_SingleSerialWriter == [][SingleWriterStep]_vars

\* an IPC handler thread has handled a batch while the pinger runs and the
\* command-processing loop, a write having failed, is inside its writes
C36_Witness ==
    /\ pc = "write"
    /\ fails > 0
    /\ pinger_pc = "ping"
    /\ pre.op = "request"

-----------------------------------------------------------------------------
(* DsulDaemon.run to its end: the pinger thread, the thread of ipc_process
   with the IPC server it starts and shuts down, and the except clause that
   KeyboardInterrupt and SystemExit lead to. ipc_active is cleared nowhere
   else, so the lines after run()'s while loop are never reached. *)

\* where the main thread is inside the try of run(), the threads started
Running == {"info", "idle", "loop", "write", "reply", "read", "input"}

\* a step of the main thread in the except clause of run(): it goes on to
\* position to, the threads' flags and events becoming t
Except(at, to, t) ==
    /\ pc = at
    /\ pc' = to
    /\ threads' = t
    /\ pre' = NoPre
    /\ UNCHANGED << retries, queue_count, command_item, input_data, fails,
                    dropped, linkVars, ipcVars, msgVars, server, conns, rx,
                    pinger_pc >>

\* KeyboardInterrupt or SystemExit is raised in the main thread
Raise ==
    /\ pc \in Running
    /\ Except(pc, "except", threads)
    /\ UNCHANGED daemonVars

\* self.serial_active = False
ExceptSerialOff ==
    /\ Except("except", "ipc_off", threads)
    /\ SetDaemon([Daemon EXCEPT !.serial_active = FALSE])

\* self.ipc_active = False; ipc_stop.set()
ExceptIpcStop ==
    /\ Except("ipc_off", "pinger_off",
              [threads EXCEPT !.ipc_active = FALSE, !.ipc_stop = TRUE])
    /\ UNCHANGED daemonVars

\* self.pinger_active = False
ExceptPingerOff ==
    /\ Except("pinger_off", "pinger_stop",
              [threads EXCEPT !.pinger_active = FALSE])
    /\ UNCHANGED daemonVars

\* pinger_stop.set()
ExceptPingerStop ==
    /\ Except("pinger_stop", "deinit", [threads EXCEPT !.pinger_stop = TRUE])
    /\ UNCHANGED daemonVars

\* self.deinit_serial()
ExceptDeinit ==
    /\ pc = "deinit"
    /\ pc' = "join_pinger"
    /\ SetDaemon(DeinitSerial(Daemon))
    /\ pre' = Pre("deinit_serial", << >>)
    /\ UNCHANGED << retries, queue_count, command_item, input_data, fails,
                    dropped, linkVars, ipcVars, msgVars, netVars, pinger_pc >>

\* pinger_thread.join() returns once pinger_process has returned
JoinPinger ==
    /\ pinger_pc = "done"
    /\ Except("join_pinger", "join_ipc", threads)
    /\ UNCHANGED daemonVars

\* ipc_thread.join() returns once ipc_process has returned; sys.exit()
JoinIpc ==
    /\ threads.ipc_pc = "done"
    /\ Except("join_ipc", "exit", threads)
    /\ UNCHANGED daemonVars

\* where the main thread is inside the except clause of run()
Excepting == {"except", "ipc_off", "pinger_off", "pinger_stop", "deinit",
              "join_pinger", "join_ipc"}

\* a second KeyboardInterrupt is raised in the main thread, this time inside
\* the except clause: the exception leaves run() and the main thread ends,
\* the process living on with the thread of Server.run, which is no daemon
\* thread
RaiseAgain ==
    /\ pc \in Excepting
    /\ Except(pc, "raised", threads)
    /\ UNCHANGED daemonVars

\* the steps of the except clause
ExceptClause ==
    \/ ExceptSerialOff
    \/ ExceptIpcStop
    \/ ExceptPingerOff
    \/ ExceptPingerStop
    \/ ExceptDeinit
    \/ JoinPinger
    \/ JoinIpc

\* the pinger's inner loop finds its stop event set and ends: back to the
\* test of the outer loop
PingerStopped ==
    /\ pinger_pc = "ping"
    /\ threads.pinger_stop
    /\ pinger_pc' = "start"
    /\ pre' = NoPre
    /\ UNCHANGED << daemonVars, drainVars, linkVars, ipcVars, msgVars,
                    netVars >>

\* a step of the thread of ipc_process from position at to position to
IpcProcess(at, to) ==
    /\ threads.ipc_pc = at
    /\ threads' = [threads EXCEPT !.ipc_pc = to]
    /\ pre' = NoPre
    /\ UNCHANGED << daemonVars, drainVars, linkVars, ipcVars, msgVars,
                    server, conns, rx, pinger_pc >>

\* ipc_process makes the ipc.Server and starts the thread of its run()
IpcProcessStart == IpcProcess("start", "wait")

\* the wait loop of ipc_process finds its stop event set
IpcProcessWake ==
    /\ threads.ipc_stop
    /\ IpcProcess("wait", "shutdown")

\* ipc_server.shutdown(), called by ipc_process
IpcProcessShutdown ==
    /\ threads.ipc_pc = "shutdown"
    /\ IpcServerThread(ShutdownStep)

\* shutdown() has returned; ipc_server_thread.join() returns once run()
\* has ended, and ipc_process returns
IpcProcessJoin ==
    /\ server.shutdown_pc = "returned"
    /\ server.run_pc \in {"returned", "raised"}
    /\ IpcProcess("shutdown", "done")

\* a step of the thread of Server.run, which ipc_process has started
ServerThread ==
    /\ threads.ipc_pc \notin {"off", "start"}
    /\ IpcServerThread(RunStep)

\* the thread of pinger_process
PingerThread == PingerStart \/ PingerPing \/ PingerStopped

InitStop == InitDrain

NextStop ==
    \/ RunThreads
    \/ RunInformationRequest
    \/ ProcessCommandsEnter
    \/ ProcessCommandsReturn
    \/ DrainPop
    \/ WriteOk
    \/ WriteFail
    \/ Link(ReadSerialEnter("reply"))
    \/ Link(ReadNothing)
    \/ Link(ReadFail)
    \/ DecodeInput
    \/ Raise
    \/ RaiseAgain
    \/ ExceptClause
    \/ PingerThread
    \/ IpcProcessStart
    \/ IpcProcessWake
    \/ IpcProcessShutdown
    \/ IpcProcessJoin
    \/ ServerThread

SpecStop == InitStop /\ [][NextStop]_vars

\* the pinger's thread is scheduled, and so is the main thread in the
\* except clause; when the interrupts come is up to the user
SpecStopLive ==
    InitStop /\ [][NextStop]_vars
        /\ WF_vars(PingerThread) /\ WF_vars(ExceptClause)

-----------------------------------------------------------------------------
(* Properties of the pinger and of the end of run() *)

\* the pinger is in its inner loop, serial_active or pinger_active false
PingerDeactivated ==
    /\ pinger_pc = "ping"
    /\ ~(threads.pinger_active /\ serial_active)

\* C37: once serial_active or pinger_active has become false while the
\* pinger is running, pinger_process returns, its stop event set or not.
C37_PingerStopsOnDeactivation == PingerDeactivated ~> (pinger_pc = "done")

PingerJoined == pc \in {"join_ipc", "exit"}

\* the main thread is past ipc_thread.join()
IpcJoined == pc = "exit"

\* C39: on shutdown the stop flag of the processing loop is cleared before
\* the pinger's stop signal is given, and deinit_serial closes the serial
\* port only after the pinger thread and the IPC thread have been joined:
\* the port is never closed while one of them has not yet been joined.
C39_ShutdownOrder ==
    /\ threads.pinger_stop => ~threads.ipc_active
    /\ (pre.op = "deinit_serial" /\ pre.d.is_open) =>
          (PingerJoined /\ IpcJoined)

-----------------------------------------------------------------------------
(* Properties of the restore of the current states *)

\* the "+lRRRGGGBBB#" of a color "R:G:B"
ColorCommand(parts) ==
    "+l" \o ThreeDigits(ParseInt(parts[1]).n)
         \o ThreeDigits(ParseInt(parts[2]).n)
         \o ThreeDigits(ParseInt(parts[3]).n) \o "#"

\* the commands that restore the current values daemon d holds
Restores(d) ==
    (IF d.current_mode # 0
     THEN { "+m" \o ThreeDigits(d.current_mode) \o "#" } ELSE {})
    \cup (IF Truthy(d.current_color)
          THEN { ColorCommand(Split(d.current_color.s, ":")) } ELSE {})
    \cup (IF Truthy(d.current_brightness)
          THEN { "+b" \o ThreeDigits(IntOf(d.current_brightness).n) \o "#" }
          ELSE {})
    \cup (IF d.current_dim # 0
          THEN { "+d" \o Digits[d.current_dim + 1] \o "#" } ELSE {})

\* the commands appended to send_commands by the step observed
Appended ==
    { send_commands[i].command :
        i \in (Len(pre.d.send_commands) + 1)..Len(send_commands) }

\* C40: when init_serial opens the port, __set_current_states appends one
\* restore command for each of mode, color, brightness and dim whose
\* current value is set ("+mMMM#", "+l...#", "+bBBB#", "+dD#"), so that a
\* reopened device is sent all of the daemon's current states.
C40_StateRestore ==
    (pre.op = "init_serial" /\ ~pre.d.is_open /\ is_open) =>
        /\ Appended = Restores(pre.d)
        /\ Len(send_commands) =
               Len(pre.d.send_commands) + Cardinality(Restores(pre.d))

====
